---- MODULE Spec2Model ----
(***************************************************************************)
(* A model of the core of AI_FinancialAssistant:                           *)
(*   - MarketDataCache            (src/src/utils/market_data.py)           *)
(*   - IntentDetector             (src/src/workflow/langgraph_workflow.py) *)
(*   - WorkflowState, WorkflowRouter, ConversationManager (same file)      *)
(*   - KnowledgeBase, RAGRetriever, RAGContext (src/src/rag/rag_system.py) *)
(*   - YFinanceProvider / AlphaVantageProvider.get_stock_quote             *)
(*                                (src/src/utils/market_data.py)           *)
(*   - GeminiProvider.generate    (src/src/core/llm_client.py)             *)
(*   - Agent's memory             (src/src/agents/base_agent.py)           *)
(* ConversationManager and MarketDataCache are modelled twice: call by     *)
(* call, and step by step under two threads.                               *)
(* Python's None is the string "None"; a dict is a function whose DOMAIN   *)
(* is the set of its keys; a list is a sequence.                           *)
(***************************************************************************)
EXTENDS Integers, Sequences, FiniteSets, TLC

VARIABLES
    now,            \* datetime.now(), in whole seconds
    cache,          \* MarketDataCache.cache: key -> [value, timestamp]
    ttl_seconds,    \* MarketDataCache.ttl_seconds
    cacheOp,        \* the last cache operation, the branch it took, its result
    lastSet,        \* history: per key, what the most recent set(k, v) did
    detOp,          \* the last IntentDetector call and its results
    keywords,       \* IntentDetector.intent_keywords, as (agent, triggers) pairs
    sessions,       \* ConversationManager.sessions: user_id -> WorkflowState
    agents,         \* WorkflowRouter.agents: the AgentTypes with a responder
    callOp,         \* the last ConversationManager call and what it returned
    okLog,          \* history: per user, the exchanges route() completed
    heap,           \* the WorkflowState objects allocated so far, by reference
    sessRef,        \* ConversationManager.sessions by reference: user_id -> ref
    thr,            \* per thread: its ConversationManager call and where it is
    view0,          \* history: the session mapping the threads started from
    cthr,           \* per thread: its MarketDataCache call and where it is
    kbDocs,         \* KnowledgeBase.documents
    disk,           \* the *.json files under kb_path, in glob order
    retr,           \* the RAGRetriever instance, if one was constructed
    ragOp,          \* the last KnowledgeBase / RAGRetriever call and its result
    buildOp,        \* the last RAGContext.build_context call and its result
    gen,            \* the GeminiProvider.generate call under way or last made
    memory,         \* Agent.memory of one agent
    memOp           \* the last call of the agent's memory methods and its result

vars == <<now, cache, ttl_seconds, cacheOp, lastSet, detOp, keywords,
          sessions, agents, callOp, okLog, heap, sessRef, thr, view0, cthr,
          kbDocs, disk, retr, ragOp, buildOp, gen, memory, memOp>>

cacheVars == <<cache, ttl_seconds, cacheOp, lastSet, cthr>>
detVars == <<detOp, keywords>>
routerVars == <<sessions, agents, callOp, okLog>>
threadVars == <<heap, sessRef, thr, view0>>
ragVars == <<kbDocs, disk, retr, ragOp, buildOp>>
llmVars == <<gen>>
agentVars == <<memory, memOp>>

None == "None"

\* {} : the dict with no keys
EmptyDict == [k \in {} |-> None]

\* d[k] = v on a copy of dict d
Put(d, k, v) == [kk \in DOMAIN d \cup {k} |-> IF kk = k THEN v ELSE d[kk]]

\* {**a, **b}: the keys of both, b's value where both have the key
Merge(a, b) == [k \in DOMAIN a \cup DOMAIN b |-> IF k \in DOMAIN b THEN b[k] ELSE a[k]]

(***************************************************************************)
(* Bounds of the model.                                                    *)
(***************************************************************************)
MaxClock == 3
MaxMemory == 3
MaxTTL == 2

(***************************************************************************)
(* The clock: datetime.now() read by the cache and by add_message.         *)
(***************************************************************************)
ClockCanAdvance == now < MaxClock

(***************************************************************************)
(* MarketDataCache                                                         *)
(***************************************************************************)
Keys == {"k1", "k2"}
Values == {"v1", "v2"}

NoCacheOp == [op |-> "init", key |-> None, branch |-> "init", ret |-> None]

NeverSet == [time |-> -1, value |-> None, cleared |-> FALSE, evicted |-> FALSE,
             replaced |-> "nothing"]

\* get, line 49: datetime.now() - cached['timestamp'] < timedelta(seconds=ttl)
FreshAtBoundary(timestamp) == now - timestamp <= ttl_seconds
Fresh(timestamp) == now - timestamp < ttl_seconds

\* get, line 53: del self.cache[key]
DelEntry(c, k) == [kk \in DOMAIN c \ {k} |-> c[kk]]

\* set, lines 59-62: self.cache[key] = {'value': value, 'timestamp': now}
SetEntryIfAbsent(c, k, v) ==
    IF k \in DOMAIN c THEN c
    ELSE [kk \in DOMAIN c \cup {k} |->
             IF kk = k THEN [value |-> v, timestamp |-> now] ELSE c[kk]]
SetEntry(c, k, v) ==
    [kk \in DOMAIN c \cup {k} |->
        IF kk = k THEN [value |-> v, timestamp |-> now] ELSE c[kk]]

\* The branch get(k) takes: "hit" (line 51), "expired" (lines 53-55),
\* "miss" (line 55 with the key not in the cache).
GetBranch(k) ==
    IF k \in DOMAIN cache
    THEN IF Fresh(cache[k].timestamp) THEN "hit" ELSE "expired"
    ELSE "miss"

CacheGet(k) ==
    LET branch == GetBranch(k) IN
    /\ cache' = IF branch = "expired" THEN DelEntry(cache, k) ELSE cache
    /\ cacheOp' = [op |-> "get", key |-> k, branch |-> branch,
                   ret |-> IF branch = "hit" THEN cache[k].value ELSE None]
    \* history: this get found the last set(k) aged ttl_seconds or more
    /\ lastSet' = [lastSet EXCEPT ![k].evicted =
                     @ \/ (lastSet[k].time >= 0
                           /\ now - lastSet[k].time >= ttl_seconds)]
    /\ UNCHANGED <<llmVars, agentVars, now, ttl_seconds, cthr, detVars, routerVars, threadVars, ragVars>>

CacheSet(k, v) ==
    /\ cache' = SetEntry(cache, k, v)
    /\ cacheOp' = [op |-> "set", key |-> k, branch |-> "set", ret |-> None]
    /\ lastSet' = [lastSet EXCEPT ![k] =
                     [time |-> now, value |-> v, cleared |-> FALSE,
                      evicted |-> FALSE,
                      replaced |-> IF k \notin DOMAIN cache THEN "nothing"
                                   ELSE IF now - cache[k].timestamp >= ttl_seconds
                                        THEN "stale" ELSE "live"]]
    /\ UNCHANGED <<llmVars, agentVars, now, ttl_seconds, cthr, detVars, routerVars, threadVars, ragVars>>

CacheClear ==
    /\ cache' = EmptyDict
    /\ cacheOp' = [op |-> "clear", key |-> None, branch |-> "clear", ret |-> None]
    /\ lastSet' = [k \in Keys |-> [lastSet[k] EXCEPT !.cleared = TRUE]]
    /\ UNCHANGED <<llmVars, agentVars, now, ttl_seconds, cthr, detVars, routerVars, threadVars, ragVars>>

CacheTick ==
    /\ ClockCanAdvance
    /\ now' = now + 1
    /\ cacheOp' = [op |-> "tick", key |-> None, branch |-> "tick", ret |-> None]
    /\ UNCHANGED <<llmVars, agentVars, cache, ttl_seconds, lastSet, cthr, detVars, routerVars, threadVars, ragVars>>

(***************************************************************************)
(* YFinanceProvider / AlphaVantageProvider: get_stock_quote                *)
(***************************************************************************)
Symbols == {"AAPL", "MSFT"}

\* lines 83 and 191: cache_key = f"stock_{symbol}"; k1 and k2 stand for
\* "stock_AAPL" and "stock_MSFT"
CacheKey == [AAPL |-> "k1", MSFT |-> "k2"]

\* What the backend does with a fetch: a quote, no data (data.empty at line 94,
\* a falsy data at line 197), or an exception (lines 120 and 209).
FetchOutcomes == Values \cup {"no_data", "error"}

\* The fetch may take time, took: the timestamp of the entry is read inside
\* set(), after it.
\* get_stock_quote with every lookup treated as a miss
GetStockQuoteUncached(symbol, outcome, took) ==
    LET k == CacheKey[symbol] IN
    /\ now + took <= MaxClock
    /\ now' = now + took
    /\ IF outcome \in Values
       THEN /\ cache' = [kk \in DOMAIN cache \cup {k} |->
                            IF kk = k THEN [value |-> outcome, timestamp |-> now']
                            ELSE cache[kk]]
            /\ cacheOp' = [op |-> "get_stock_quote", key |-> k,
                           branch |-> "fetched", ret |-> outcome]
            /\ lastSet' = [lastSet EXCEPT ![k] =
                             [time |-> now', value |-> outcome, cleared |-> FALSE,
                              evicted |-> FALSE, replaced |-> "nothing"]]
       ELSE /\ cache' = cache
            /\ cacheOp' = [op |-> "get_stock_quote", key |-> k,
                           branch |-> outcome, ret |-> None]
            /\ lastSet' = lastSet
    /\ UNCHANGED <<llmVars, agentVars, ttl_seconds, cthr, detVars, routerVars, threadVars, ragVars>>

\* get_stock_quote, lines 81-122 and 189-212: the cached quote when get()
\* returns one (a StockQuote is truthy), else a fetch; the quote fetched is
\* stored by set() and returned, a fetch with no data or an exception
\* returns None and stores nothing.
GetStockQuote(symbol, outcome, took) ==
    LET k == CacheKey[symbol]
        branch == GetBranch(k)
        c1 == IF branch = "expired" THEN DelEntry(cache, k) ELSE cache
        seen == [lastSet EXCEPT ![k].evicted =
                    @ \/ (lastSet[k].time >= 0
                          /\ now - lastSet[k].time >= ttl_seconds)]
    IN
    IF branch = "hit"
    THEN /\ cacheOp' = [op |-> "get_stock_quote", key |-> k, branch |-> "hit",
                        ret |-> cache[k].value]
         /\ UNCHANGED <<now, cache, lastSet>>
         /\ UNCHANGED <<llmVars, agentVars, ttl_seconds, cthr, detVars, routerVars, threadVars, ragVars>>
    ELSE /\ now + took <= MaxClock
         /\ now' = now + took
         /\ IF outcome \in Values
            THEN /\ cache' = [kk \in DOMAIN c1 \cup {k} |->
                                 IF kk = k THEN [value |-> outcome, timestamp |-> now']
                                 ELSE c1[kk]]
                 /\ cacheOp' = [op |-> "get_stock_quote", key |-> k,
                                branch |-> "fetched", ret |-> outcome]
                 /\ lastSet' = [lastSet EXCEPT ![k] =
                                  [time |-> now', value |-> outcome, cleared |-> FALSE,
                                   evicted |-> FALSE, replaced |-> "nothing"]]
            ELSE /\ cache' = c1
                 /\ cacheOp' = [op |-> "get_stock_quote", key |-> k,
                                branch |-> outcome, ret |-> None]
                 /\ lastSet' = seen
         /\ UNCHANGED <<llmVars, agentVars, ttl_seconds, cthr, detVars, routerVars, threadVars, ragVars>>

(***************************************************************************)
(* MarketDataCache under threads: get is a membership test (line 47), a    *)
(* read (48), a comparison (49) and a del (53), with no lock around them;  *)
(* set and clear are one dict operation each.                              *)
(***************************************************************************)
NoEntry == [value |-> None, timestamp |-> -1]

IdleCacheThread ==
    [pc |-> "idle", key |-> None, cached |-> NoEntry, res |-> "none",
     ret |-> None, age |-> 0]

\* The thread is back in its caller: what its call did and gave
Returned(t, k, res, ret, age) ==
    [cthr EXCEPT ![t] = [pc |-> "idle", key |-> k, cached |-> NoEntry,
                         res |-> res, ret |-> ret, age |-> age]]

\* get, line 47: if key in self.cache
CtGetTest(t, k) ==
    /\ cthr[t].pc = "idle"
    /\ cthr' = IF k \in DOMAIN cache
               THEN [cthr EXCEPT ![t] = [IdleCacheThread EXCEPT !.pc = "read", !.key = k]]
               ELSE Returned(t, k, "miss", None, 0)
    /\ UNCHANGED <<llmVars, agentVars, cache, ttl_seconds, cacheOp, lastSet, now,
                   detVars, routerVars, threadVars, ragVars>>

\* get, line 48: cached = self.cache[key], a KeyError when the key has gone
CtGetRead(t) ==
    LET k == cthr[t].key
    IN  /\ cthr[t].pc = "read"
        /\ cthr' = IF k \in DOMAIN cache
                   THEN [cthr EXCEPT ![t].pc = "compare", ![t].cached = cache[k]]
                   ELSE Returned(t, k, "KeyError", None, 0)
        /\ UNCHANGED <<llmVars, agentVars, cache, ttl_seconds, cacheOp, lastSet, now,
                       detVars, routerVars, threadVars, ragVars>>

\* get, lines 49-51: the age test on the entry read, return of its value
CtGetCompare(t) ==
    LET k == cthr[t].key
        cached == cthr[t].cached
    IN  /\ cthr[t].pc = "compare"
        /\ cthr' = IF Fresh(cached.timestamp)
                   THEN Returned(t, k, "hit", cached.value, now - cached.timestamp)
                   ELSE [cthr EXCEPT ![t].pc = "del"]
        /\ UNCHANGED <<llmVars, agentVars, cache, ttl_seconds, cacheOp, lastSet, now,
                       detVars, routerVars, threadVars, ragVars>>

\* get, lines 53-55: del self.cache[key], a KeyError when the key has gone
CtGetDel(t) ==
    LET k == cthr[t].key
    IN  /\ cthr[t].pc = "del"
        /\ IF k \in DOMAIN cache
           THEN /\ cache' = DelEntry(cache, k)
                /\ cthr' = Returned(t, k, "expired", None, 0)
           ELSE /\ cache' = cache
                /\ cthr' = Returned(t, k, "KeyError", None, 0)
        /\ UNCHANGED <<llmVars, agentVars, ttl_seconds, cacheOp, lastSet, now,
                       detVars, routerVars, threadVars, ragVars>>

\* set, lines 59-62
CtSet(t, k, v) ==
    /\ cthr[t].pc = "idle"
    /\ cache' = SetEntry(cache, k, v)
    /\ cthr' = Returned(t, k, "set", None, 0)
    /\ UNCHANGED <<llmVars, agentVars, ttl_seconds, cacheOp, lastSet, now,
                   detVars, routerVars, threadVars, ragVars>>

\* clear, line 66
CtClear(t) ==
    /\ cthr[t].pc = "idle"
    /\ cache' = EmptyDict
    /\ cthr' = Returned(t, None, "clear", None, 0)
    /\ UNCHANGED <<llmVars, agentVars, ttl_seconds, cacheOp, lastSet, now,
                   detVars, routerVars, threadVars, ragVars>>

(***************************************************************************)
(* Strings: str.lower() and the substring test `keyword in query_lower`.   *)
(***************************************************************************)
UpperCase == <<"A", "B", "C", "D", "E", "F", "G", "H", "I", "J", "K", "L", "M",
               "N", "O", "P", "Q", "R", "S", "T", "U", "V", "W", "X", "Y", "Z">>
LowerCase == <<"a", "b", "c", "d", "e", "f", "g", "h", "i", "j", "k", "l", "m",
               "n", "o", "p", "q", "r", "s", "t", "u", "v", "w", "x", "y", "z">>

LowerChar(c) ==
    IF \E i \in 1..26 : UpperCase[i] = c
    THEN LowerCase[CHOOSE i \in 1..26 : UpperCase[i] = c]
    ELSE c

RECURSIVE Lower(_)
Lower(s) ==
    IF Len(s) = 0 THEN ""
    ELSE LowerChar(SubSeq(s, 1, 1)) \o Lower(SubSeq(s, 2, Len(s)))

\* Python's `sub in s` for strings
Contains(s, sub) ==
    \E i \in 1..(Len(s) - Len(sub) + 1) : SubSeq(s, i, i + Len(sub) - 1) = sub


(***************************************************************************)
(* AgentType and IntentDetector                                            *)
(***************************************************************************)
FINANCE_QA == "finance_qa"
PORTFOLIO_ANALYSIS == "portfolio_analysis"
MARKET_ANALYSIS == "market_analysis"
GOAL_PLANNING == "goal_planning"
NEWS_SYNTHESIZER == "news_synthesizer"
TAX_EDUCATION == "tax_education"

AgentType == {FINANCE_QA, PORTFOLIO_ANALYSIS, MARKET_ANALYSIS, GOAL_PLANNING,
              NEWS_SYNTHESIZER, TAX_EDUCATION}

\* _build_intent_keywords: the dict, in insertion order, as (key, list) pairs
BuildIntentKeywords ==
    << <<FINANCE_QA,
         <<"explain", "what is", "how does", "teach", "learn", "understand",
           "definition", "concept", "meaning", "question", "tell me">> >>,
       <<PORTFOLIO_ANALYSIS,
         <<"portfolio", "holdings", "investment", "analyze", "review",
           "diversification", "allocation", "rebalance", "performance">> >>,
       <<MARKET_ANALYSIS,
         <<"market", "stock", "trend", "index", "economic", "outlook",
           "analysis", "sentiment", "news">> >>,
       <<GOAL_PLANNING,
         <<"goal", "plan", "save", "retire", "target", "timeline",
           "objective", "strategy", "how much">> >>,
       <<NEWS_SYNTHESIZER,
         <<"news", "event", "impact", "development", "headlines",
           "current", "recent", "summary">> >>,
       <<TAX_EDUCATION,
         <<"tax", "401k", "ira", "roth", "account", "contribution",
           "deduction", "form", "filing">> >> >>

\* A query that is not a str (query.lower() raises AttributeError) is None.
IsStr(query) == query # None

\* The position in the dict at which detect_intent's loop returns.
LastOf(S) == CHOOSE i \in S : \A j \in S : j <= i
FirstOf(S) == CHOOSE i \in S : \A j \in S : i <= j

HoldingsWords == <<"hold", "own", "portfolio", "position">>
GoalWords == <<"goal", "save", "retire", "target">>
RiskWords == <<"risk", "conservative", "aggressive", "tolerance">>

\* The queries the detector is applied to: the queries of the test suites and
\* every phrase of at most MaxQueryWords words of QueryWords.
MaxQueryWords == 2

QueryWords == {"Explain", "401k", "news", "Tell", "me", "portfolio", "PLAN",
               "performance", "what", "is", "hello", "risk"}

FixtureQueries == {"What is a stock?", "Analyze my portfolio",
                   "What's happening in the market?", "What's the market doing?",
                   "Help me plan for retirement", "Tell me about this news",
                   "Explain 401k", "Analyze my portfolio: AAPL 10, MSFT 5"}

RECURSIVE Phrases(_)
Phrases(n) ==
    IF n = 0 THEN {}
    ELSE QueryWords \cup Phrases(n - 1)
         \cup {p \o " " \o w : p \in Phrases(n - 1), w \in QueryWords}

Queries == FixtureQueries \cup Phrases(MaxQueryWords)

\* The messages handed to process_message; None is a message that is no str.
RouterQueries == {"What is a stock?", "Analyze my portfolio", None}

\* `word in query.lower()`. The answer is a function of the two strings alone;
\* for the queries and the words of this model it is tabulated once.
Range(seq) == {seq[j] : j \in 1..Len(seq)}
KnownWords ==
    UNION {Range(BuildIntentKeywords[i][2]) : i \in 1..Len(BuildIntentKeywords)}
    \cup Range(HoldingsWords) \cup Range(GoalWords) \cup Range(RiskWords)
KnownQueries == Queries \cup (RouterQueries \ {None})
Occurring ==
    [q \in KnownQueries |-> {w \in KnownWords : Contains(Lower(q), w)}]

WordInLower(word, query) ==
    IF query \in KnownQueries /\ word \in KnownWords
    THEN word \in Occurring[query]
    ELSE Contains(Lower(query), word)

\* Python's any(word in query_lower for word in words), words a list
AnyIn(words, query) == \E j \in 1..Len(words) : WordInLower(words[j], query)

\* detect_intent, lines 104-112 (query a str)
detect_intent_sticky(query) ==
    LET matching == {i \in 1..Len(keywords) : AnyIn(keywords[i][2], query)}
        routed == {u \in DOMAIN sessions : sessions[u].current_agent # None}
    IN  IF routed # {} THEN sessions[CHOOSE u \in routed : TRUE].current_agent
        ELSE IF matching = {} THEN FINANCE_QA ELSE keywords[FirstOf(matching)][1]
detect_intent(query) ==
    LET matching == {i \in 1..Len(keywords) : AnyIn(keywords[i][2], query)}
    IN  IF matching = {} THEN FINANCE_QA ELSE keywords[FirstOf(matching)][1]

\* extract_context_from_query, lines 116-131: a dict holding only True entries
extract_context_first_only(query) ==
    IF AnyIn(HoldingsWords, query) THEN [h \in {"needs_holdings"} |-> TRUE]
    ELSE IF AnyIn(GoalWords, query) THEN [h \in {"needs_goals"} |-> TRUE]
    ELSE IF AnyIn(RiskWords, query) THEN [h \in {"needs_risk_profile"} |-> TRUE]
    ELSE EmptyDict
extract_context_from_query(query) ==
    LET present == (IF AnyIn(HoldingsWords, query) THEN {"needs_holdings"} ELSE {})
                   \cup (IF AnyIn(GoalWords, query) THEN {"needs_goals"} ELSE {})
                   \cup (IF AnyIn(RiskWords, query) THEN {"needs_risk_profile"} ELSE {})
    IN  [h \in present |-> TRUE]

NoDetOp == [query |-> "", intent |-> None, hints |-> EmptyDict, did |-> {}]

DetDetectIntent ==
    /\ "detect_intent" \notin detOp.did
    /\ detOp' = [detOp EXCEPT !.intent = detect_intent(detOp.query),
                              !.did = @ \cup {"detect_intent"}]
    /\ UNCHANGED <<llmVars, agentVars, keywords, now, cacheVars, routerVars, threadVars, ragVars>>

DetExtractContext ==
    /\ "extract_context" \notin detOp.did
    /\ detOp' = [detOp EXCEPT !.hints = extract_context_from_query(detOp.query),
                              !.did = @ \cup {"extract_context"}]
    /\ UNCHANGED <<llmVars, agentVars, keywords, now, cacheVars, routerVars, threadVars, ragVars>>

(***************************************************************************)
(* WorkflowState                                                           *)
(***************************************************************************)
Users == {"u1", "u2"}

\* WorkflowState(user_id, messages=[], context={}, portfolio={}, goals=[],
\* preferences={}), current_agent defaulting to None (create_session)
NewState(user_id) ==
    [user_id |-> user_id, messages |-> << >>, current_agent |-> None,
     context |-> EmptyDict, portfolio |-> EmptyDict, goals |-> << >>,
     preferences |-> EmptyDict]

\* add_message, lines 46-50
add_message_in_front(state, role, content) ==
    [state EXCEPT !.messages =
        <<[role |-> role, content |-> content, timestamp |-> now]>> \o @]
add_message(state, role, content) ==
    [state EXCEPT !.messages =
        Append(@, [role |-> role, content |-> content, timestamp |-> now])]

\* update_context, line 58
update_context(state, key, value) ==
    [state EXCEPT !.context = Put(@, key, value)]

\* self.messages[-limit:], Python's slice with a start of -limit and no stop
LastMessages(messages, limit) ==
    LET n == Len(messages)
        start == IF -limit < 0
                 THEN (IF n - limit < 0 THEN 0 ELSE n - limit)
                 ELSE (IF -limit > n THEN n ELSE -limit)
    IN  SubSeq(messages, start + 1, n)

(***************************************************************************)
(* WorkflowRouter.route                                                    *)
(***************************************************************************)
ErrorPrefix == "Error processing request: "

\* What agent.process(query, context) does: return a text or raise.
ResponseTexts == {"r1"}
ResponderOutcomes ==
    [kind : {"text"}, text : ResponseTexts] \cup [kind : {"raise"}, text : {"boom"}]

NoContext == EmptyDict

\* route, line 154: {**state.context, **state.portfolio, **{'goals': state.goals}}
MergeContext(state) ==
    Merge(Merge(state.context, state.portfolio), [goals |-> state.goals])

\* route, lines 166-167
RecordExchangeAnswerFirst(state, query, response) ==
    add_message(add_message(state, "assistant", response), "user", query)
RecordExchange(state, query, response) ==
    add_message(add_message(state, "user", query), "assistant", response)

\* route, line 173
ErrorReturnBare(message) == message
ErrorReturn(message) == ErrorPrefix \o message

\* route, line 159
NotConfiguredAsError(intent) == ErrorReturn(intent)
NotConfiguredReturn(intent) == "Agent for " \o intent \o " not configured"

\* route, lines 144-173. The result: the state as route leaves it, the string
\* returned, the return path taken, what raised (if anything) and the context
\* handed to the responder (NoContext when none was called).
Route(query, state, outcome) ==
    IF ~IsStr(query)
    THEN \* line 146: query.lower() raises AttributeError, caught at line 171
         [state |-> state, kind |-> "error", raised |-> "detect_intent",
          ret |-> ErrorReturn("'NoneType' object has no attribute 'lower'"),
          context |-> NoContext]
    ELSE
    LET intent == detect_intent(query)
        s1 == [state EXCEPT !.current_agent = intent]
        context_hints == extract_context_from_query(query)
        s2 == update_context(s1, "hints", context_hints)
        agent_ctx == MergeContext(s2)
    IN  IF intent \notin agents
        THEN [state |-> s2, kind |-> "not_configured", raised |-> "nothing",
              ret |-> NotConfiguredReturn(intent), context |-> NoContext]
        ELSE IF outcome.kind = "raise"
        THEN [state |-> s2, kind |-> "error", raised |-> "responder",
              ret |-> ErrorReturn(outcome.text), context |-> agent_ctx]
        ELSE [state |-> RecordExchange(s2, query, outcome.text),
              kind |-> "response", raised |-> "nothing",
              ret |-> outcome.text, context |-> agent_ctx]

(***************************************************************************)
(* ConversationManager                                                     *)
(***************************************************************************)
MaxExchanges == 2
MaxGoals == 1

Portfolios == {EmptyDict, [AAPL |-> 10]}
GoalRecords == {"Retirement"}
\* The limits handed to get_conversation_history
Limits == {0, 1, 2}

\* The configurations of WorkflowRouter(agents): main.py lines 83-90 register
\* all six, the test suites register FINANCE_QA alone.
AgentConfigs == {AgentType, {FINANCE_QA}}

HasSession(user_id) == user_id \in DOMAIN sessions

\* get_session, line 199: self.sessions.get(user_id)
MessagesOf(user_id) ==
    IF HasSession(user_id) THEN sessions[user_id].messages ELSE << >>

Call(op, user_id, query, kind, raised, ret, out) ==
    [op |-> op, user |-> user_id, query |-> query, kind |-> kind,
     raised |-> raised, ret |-> ret, out |-> out,
     existed |-> HasSession(user_id), before |-> MessagesOf(user_id)]

NoCall == [op |-> "init", user |-> None, query |-> None, kind |-> "none",
           raised |-> "nothing", ret |-> None, out |-> << >>,
           existed |-> FALSE, before |-> << >>]

\* create_session, lines 185-195: the new state replaces whatever was stored
\* under user_id and is returned.
CreateSessionKeeping(user_id) ==
    /\ sessions' = IF HasSession(user_id) THEN sessions
                   ELSE Put(sessions, user_id, NewState(user_id))
    /\ callOp' = Call("create_session", user_id, None, "state", "nothing",
                      "WorkflowState", sessions'[user_id])
    /\ okLog' = [okLog EXCEPT ![user_id] = << >>]
    /\ UNCHANGED <<llmVars, agentVars, agents, now, cacheVars, detVars, threadVars, ragVars>>
CreateSession(user_id) ==
    /\ sessions' = Put(sessions, user_id, NewState(user_id))
    /\ callOp' = Call("create_session", user_id, None, "state", "nothing",
                      "WorkflowState", NewState(user_id))
    /\ okLog' = [okLog EXCEPT ![user_id] = << >>]
    /\ UNCHANGED <<llmVars, agentVars, agents, now, cacheVars, detVars, threadVars, ragVars>>

\* get_session, lines 197-199: self.sessions.get(user_id), None when absent
GetSession(user_id) ==
    /\ callOp' = IF HasSession(user_id)
                 THEN Call("get_session", user_id, None, "state", "nothing",
                           "WorkflowState", sessions[user_id])
                 ELSE Call("get_session", user_id, None, "none", "nothing",
                           None, << >>)
    /\ UNCHANGED <<llmVars, agentVars, sessions, agents, okLog, now, cacheVars, detVars, threadVars, ragVars>>

\* process_message, lines 203-205: the state route() works on. A WorkflowState
\* is a plain dataclass and so always true; `not state` holds for None alone.
SessionOrNewWhenEmpty(user_id) ==
    IF HasSession(user_id) /\ Len(sessions[user_id].messages) > 0
    THEN sessions[user_id] ELSE NewState(user_id)
SessionOrNew(user_id) ==
    IF HasSession(user_id) THEN sessions[user_id] ELSE NewState(user_id)

\* The number of message records held by all sessions together
RECURSIVE TotalMessages(_)
TotalMessages(S) ==
    IF S = {} THEN 0
    ELSE LET u == CHOOSE x \in S : TRUE
         IN  Len(sessions[u].messages) + TotalMessages(S \ {u})

\* process_message, lines 203-207. A run holds at most MaxExchanges exchanges.
ProcessMessage(user_id, message, outcome) ==
    \E state \in {SessionOrNew(user_id)} :
    \E r \in {Route(message, state, outcome)} :
        /\ TotalMessages(DOMAIN sessions) < 2 * MaxExchanges
        /\ sessions' = Put(sessions, user_id, r.state)
        /\ callOp' = Call("process_message", user_id, message, r.kind, r.raised,
                          r.ret, r.context)
        /\ okLog' = IF r.kind = "response"
                    THEN [okLog EXCEPT ![user_id] = Append(@, <<message, r.ret>>)]
                    ELSE okLog
        /\ UNCHANGED <<llmVars, agentVars, agents, now, cacheVars, detVars, threadVars, ragVars>>

\* update_portfolio, lines 211-214
UpdatePortfolioCreating(user_id, holdings) ==
    /\ sessions' = Put(sessions, user_id,
                       [SessionOrNew(user_id) EXCEPT !.portfolio = holdings])
    /\ callOp' = Call("update_portfolio", user_id, None, "none", "nothing", None, << >>)
    /\ UNCHANGED <<llmVars, agentVars, agents, okLog, now, cacheVars, detVars, threadVars, ragVars>>
UpdatePortfolio(user_id, holdings) ==
    /\ sessions' = IF HasSession(user_id)
                   THEN [sessions EXCEPT ![user_id].portfolio = holdings]
                   ELSE sessions
    /\ callOp' = Call("update_portfolio", user_id, None, "none", "nothing", None, << >>)
    /\ UNCHANGED <<llmVars, agentVars, agents, okLog, now, cacheVars, detVars, threadVars, ragVars>>

\* set_goal, lines 218-221
SetGoal(user_id, goal) ==
    /\ HasSession(user_id) => Len(sessions[user_id].goals) < MaxGoals
    /\ sessions' = IF HasSession(user_id)
                   THEN [sessions EXCEPT ![user_id].goals = Append(@, goal)]
                   ELSE sessions
    /\ callOp' = Call("set_goal", user_id, None, "none", "nothing", None, << >>)
    /\ UNCHANGED <<llmVars, agentVars, agents, okLog, now, cacheVars, detVars, threadVars, ragVars>>

\* clear_session, lines 225-227
ClearSession(user_id) ==
    /\ sessions' = IF HasSession(user_id)
                   THEN [u \in DOMAIN sessions \ {user_id} |-> sessions[u]]
                   ELSE sessions
    /\ callOp' = Call("clear_session", user_id, None, "none", "nothing", None, << >>)
    /\ okLog' = [okLog EXCEPT ![user_id] = << >>]
    /\ UNCHANGED <<llmVars, agentVars, agents, now, cacheVars, detVars, threadVars, ragVars>>

\* ConversationManager.get_conversation_history, lines 231-234
GetConversationHistory(user_id, limit) ==
    /\ callOp' = Call("get_conversation_history", user_id, None, "list", "nothing", None,
                      IF HasSession(user_id)
                      THEN LastMessages(sessions[user_id].messages, limit)
                      ELSE << >>)
    /\ UNCHANGED <<llmVars, agentVars, sessions, agents, okLog, now, cacheVars, detVars, threadVars, ragVars>>

\* get_session_summary, lines 238-249
SessionSummary(user_id) ==
    IF ~HasSession(user_id) THEN EmptyDict
    ELSE LET state == sessions[user_id] IN
         [user_id |-> user_id,
          messages_count |-> Len(state.messages),
          portfolio |-> state.portfolio,
          goals |-> state.goals,
          current_agent |-> state.current_agent,
          context_keys |-> DOMAIN state.context]

GetSessionSummary(user_id) ==
    /\ callOp' = Call("get_session_summary", user_id, None, "dict", "nothing", None,
                      SessionSummary(user_id))
    /\ UNCHANGED <<llmVars, agentVars, sessions, agents, okLog, now, cacheVars, detVars, threadVars, ragVars>>

(***************************************************************************)
(* ConversationManager under threads. Python hands out references: the     *)
(* mapping holds a reference to a WorkflowState object and a caller works  *)
(* on the reference get_session or create_session gave it. Each step below *)
(* is one access to the shared mapping or to a shared object; nothing in   *)
(* ConversationManager or WorkflowRouter takes a lock.                     *)
(***************************************************************************)
Threads == {"t1", "t2"}

NoRef == 0
NoOutcome == [kind |-> "none", text |-> ""]

\* The calls a thread may make, one per thread
ThreadCalls ==
    [op : {"process_message"}, user : Users, query : RouterQueries,
     outcome : ResponderOutcomes, holdings : {EmptyDict}, goal : {None}]
    \cup [op : {"create_session", "clear_session"}, user : Users, query : {None},
          outcome : {NoOutcome}, holdings : {EmptyDict}, goal : {None}]
    \cup [op : {"update_portfolio"}, user : Users, query : {None},
          outcome : {NoOutcome}, holdings : Portfolios, goal : {None}]
    \cup [op : {"set_goal"}, user : Users, query : {None},
          outcome : {NoOutcome}, holdings : {EmptyDict}, goal : GoalRecords]

IdleThread ==
    [call |-> [op |-> "none", user |-> None, query |-> None, outcome |-> NoOutcome,
               holdings |-> EmptyDict, goal |-> None],
     pc |-> "done", ref |-> NoRef, ret |-> None]

\* The mappings the threads may find: no session, or one session of u1 that
\* holds a portfolio (create_session followed by update_portfolio).
StartHeaps ==
    {<< >>, <<[NewState("u1") EXCEPT !.portfolio = [AAPL |-> 10]]>>}

\* The state stored for user_id, as a list of zero or one element
View(user_id) ==
    IF user_id \in DOMAIN sessRef THEN <<heap[sessRef[user_id]]>> ELSE << >>

\* create_session, line 193: self.sessions[user_id] = state
InstallForAll(refs, user_id, ref) ==
    [u \in DOMAIN refs \cup {user_id} |-> ref]
Install(refs, user_id, ref) == Put(refs, user_id, ref)

Step(t, pc, ref, ret) == [thr EXCEPT ![t].pc = pc, ![t].ref = ref, ![t].ret = ret]

\* get_session, line 199, as called by process_message (203), update_portfolio
\* (211) and set_goal (218)
ThrGetSession(t) ==
    LET c == thr[t].call
        ref == IF c.user \in DOMAIN sessRef THEN sessRef[c.user] ELSE NoRef
    IN  /\ thr[t].pc = "start"
        /\ c.op \in {"process_message", "update_portfolio", "set_goal"}
        /\ thr' = Step(t, IF c.op = "process_message"
                          THEN (IF ref = NoRef THEN "create" ELSE "route")
                          ELSE (IF ref = NoRef THEN "done" ELSE "write"),
                       ref, None)
        /\ UNCHANGED <<llmVars, agentVars, heap, sessRef, view0, agents, sessions, callOp, okLog,
                       now, cacheVars, detVars, ragVars>>

\* create_session, lines 185-195, called directly or by process_message (205)
ThrCreateSession(t) ==
    LET c == thr[t].call
        ref == Len(heap) + 1
    IN  /\ \/ thr[t].pc = "start" /\ c.op = "create_session"
           \/ thr[t].pc = "create"
        /\ heap' = Append(heap, NewState(c.user))
        /\ sessRef' = Install(sessRef, c.user, ref)
        /\ thr' = Step(t, IF c.op = "create_session" THEN "done" ELSE "route", ref, None)
        /\ UNCHANGED <<llmVars, agentVars, view0, agents, sessions, callOp, okLog, now, cacheVars, detVars, ragVars>>

\* route, lines 145-160: intent, current_agent, hints, the responder lookup
ThrRoute(t) ==
    LET c == thr[t].call
        ref == thr[t].ref
    IN  /\ thr[t].pc = "route"
        /\ IF ~IsStr(c.query)
           THEN /\ thr' = Step(t, "done", ref,
                               ErrorReturn("'NoneType' object has no attribute 'lower'"))
                /\ heap' = heap
           ELSE LET intent == detect_intent(c.query)
                    s1 == [heap[ref] EXCEPT !.current_agent = intent]
                    s2 == update_context(s1, "hints", extract_context_from_query(c.query))
                IN  /\ heap' = [heap EXCEPT ![ref] = s2]
                    /\ thr' = IF intent \notin agents
                              THEN Step(t, "done", ref, NotConfiguredReturn(intent))
                              ELSE Step(t, "respond", ref, None)
        /\ UNCHANGED <<llmVars, agentVars, sessRef, view0, agents, sessions, callOp, okLog,
                       now, cacheVars, detVars, ragVars>>

\* route, line 163: agent.process returns a text or raises (caught at 171)
ThrRespond(t) ==
    LET c == thr[t].call
    IN  /\ thr[t].pc = "respond"
        /\ thr' = IF c.outcome.kind = "raise"
                  THEN Step(t, "done", thr[t].ref, ErrorReturn(c.outcome.text))
                  ELSE Step(t, "add_user", thr[t].ref, None)
        /\ UNCHANGED <<llmVars, agentVars, heap, sessRef, view0, agents, sessions, callOp, okLog,
                       now, cacheVars, detVars, ragVars>>

\* route, lines 166-167: the two add_message calls, one list append each
ThrAddMessage(t) ==
    LET c == thr[t].call
        ref == thr[t].ref
    IN  /\ thr[t].pc \in {"add_user", "add_assistant"}
        /\ heap' = [heap EXCEPT ![ref] =
                       IF thr[t].pc = "add_user"
                       THEN add_message(@, "user", c.query)
                       ELSE add_message(@, "assistant", c.outcome.text)]
        /\ thr' = IF thr[t].pc = "add_user"
                  THEN Step(t, "add_assistant", ref, None)
                  ELSE Step(t, "done", ref, c.outcome.text)
        /\ UNCHANGED <<llmVars, agentVars, sessRef, view0, agents, sessions, callOp, okLog,
                       now, cacheVars, detVars, ragVars>>

\* update_portfolio, line 214, and set_goal, line 221, on the state found
ThrWrite(t) ==
    LET c == thr[t].call
        ref == thr[t].ref
    IN  /\ thr[t].pc = "write"
        /\ heap' = [heap EXCEPT ![ref] =
                       IF c.op = "update_portfolio"
                       THEN [@ EXCEPT !.portfolio = c.holdings]
                       ELSE [@ EXCEPT !.goals = Append(@, c.goal)]]
        /\ thr' = Step(t, "done", ref, None)
        /\ UNCHANGED <<llmVars, agentVars, sessRef, view0, agents, sessions, callOp, okLog,
                       now, cacheVars, detVars, ragVars>>

\* clear_session, line 225: if user_id in self.sessions
ThrClearCheck(t) ==
    LET c == thr[t].call
    IN  /\ thr[t].pc = "start"
        /\ c.op = "clear_session"
        /\ thr' = Step(t, IF c.user \in DOMAIN sessRef THEN "del" ELSE "done",
                       NoRef, None)
        /\ UNCHANGED <<llmVars, agentVars, heap, sessRef, view0, agents, sessions, callOp, okLog,
                       now, cacheVars, detVars, ragVars>>

\* clear_session, line 226: del self.sessions[user_id], a KeyError when the
\* key has gone since the test
ThrClearDel(t) ==
    LET c == thr[t].call
    IN  /\ thr[t].pc = "del"
        /\ IF c.user \in DOMAIN sessRef
           THEN /\ sessRef' = [u \in DOMAIN sessRef \ {c.user} |-> sessRef[u]]
                /\ thr' = Step(t, "done", NoRef, None)
           ELSE /\ sessRef' = sessRef
                /\ thr' = Step(t, "done", NoRef, "KeyError")
        /\ UNCHANGED <<llmVars, agentVars, heap, view0, agents, sessions, callOp, okLog,
                       now, cacheVars, detVars, ragVars>>

(***************************************************************************)
(* KnowledgeBase and RAGRetriever (src/src/rag/rag_system.py). A Document  *)
(* is named by its id; its embedding is a point on a line and the L2       *)
(* distance of two points the square of their difference.                  *)
(***************************************************************************)
MaxDocs == 3
MaxTopK == 3
MaxCoord == 2

Docs == {"d1", "d2", "d3"}

\* SentenceTransformer.encode of a document's content
Embedding == [d \in Docs |-> CASE d = "d1" -> 0 [] d = "d2" -> MaxCoord [] OTHER -> 1]

\* A *.json file: a list of records, one record, or text json.load rejects;
\* "bad" is a list element that is not a record (doc_data.get raises).
FileList == [kind |-> "list", items |-> <<"d1", "d2">>]
FileSingle == [kind |-> "single", items |-> <<"d3">>]
FileInvalid == [kind |-> "invalid", items |-> << >>]
FilePartial == [kind |-> "list", items |-> <<"d3", "bad", "d1">>]
Disks == {<< >>, <<FileList>>, <<FileInvalid, FileSingle>>, <<FilePartial>>}

\* What the backend does when RAGRetriever.__init__ reaches for it
Backends == {"available", "packages_missing", "model_unavailable"}

\* load_documents, lines 40-67, for one file: the documents appended before
\* the file is given up or ends
RECURSIVE GoodPrefix(_)
GoodPrefix(items) ==
    IF items = << >> \/ Head(items) = "bad" THEN << >>
    ELSE <<Head(items)>> \o GoodPrefix(Tail(items))

LoadFile(file) ==
    IF file.kind = "invalid" THEN << >> ELSE GoodPrefix(file.items)

\* load_documents, lines 39-67: every file in turn
RECURSIVE LoadAll(_)
LoadAll(files) ==
    IF files = << >> THEN << >>
    ELSE LoadFile(Head(files)) \o LoadAll(Tail(files))

NoRetriever == [mode |-> "none", transformer |-> FALSE, docs |-> "unset",
                index |-> << >>]

\* No build_context call made yet
NoBuildOp == [op |-> "init", documents |-> << >>, max_tokens |-> 0, text |-> << >>]

NoRagOp == [op |-> "init", backend |-> "none", k |-> 0, q |-> 0, path |-> "none",
            raised |-> "nothing", results |-> << >>]

\* Python's list[:k] for k >= 0
FirstK(list, k) == SubSeq(list, 1, IF k < Len(list) THEN k ELSE Len(list))

\* Python's list[idx], a negative idx counting from the end
PyIndex(list, idx) == IF idx >= 0 THEN list[idx + 1] ELSE list[Len(list) + idx + 1]

\* retrieve, lines 129 and 145: [(doc, 0.0) for doc in self.documents[:top_k]]
ZeroScored(list, k) == [i \in 1..Len(FirstK(list, k)) |-> <<list[i], 0>>]

Dist(a, b) == (a - b) * (a - b)

\* The distance IndexFlatL2.search reports with the label -1
NoNeighbour == MaxCoord * MaxCoord + 1

\* IndexFlatL2.search(q, k), line 136: the k nearest vectors as pairs of a
\* zero-based label and a distance, nearest first; beyond the vectors the
\* index holds, the label -1
IndexSearch(index, q, k) ==
    LET n == Len(index)
        order == SortSeq([i \in 1..n |-> i],
                         LAMBDA a, b : \/ Dist(index[a], q) < Dist(index[b], q)
                                       \/ (Dist(index[a], q) = Dist(index[b], q) /\ a < b))
    IN  [j \in 1..k |-> IF j <= n THEN <<order[j] - 1, Dist(index[order[j]], q)>>
                        ELSE <<-1, NoNeighbour>>]

\* retrieve, line 136: min(top_k, len(self.documents))
SearchCountAll(top_k, n) == n
SearchCount(top_k, n) == IF top_k < n THEN top_k ELSE n

\* retrieve, lines 138-142: the found pairs whose label passes idx < len
RECURSIVE Collect(_, _)
Collect(found, documents) ==
    IF found = << >> THEN << >>
    ELSE (IF Head(found)[1] < Len(documents)
          THEN <<<<PyIndex(documents, Head(found)[1]), Head(found)[2]>>>>
          ELSE << >>) \o Collect(Tail(found), documents)

\* KnowledgeBase.add_document, line 74
AddDocument(d) ==
    /\ Len(kbDocs) < MaxDocs
    /\ kbDocs' = Append(kbDocs, d)
    /\ ragOp' = [NoRagOp EXCEPT !.op = "add_document"]
    /\ UNCHANGED <<llmVars, agentVars, disk, retr, buildOp, now, cacheVars, detVars, routerVars, threadVars>>

\* KnowledgeBase.load_documents, lines 36-70, called on its own
LoadDocuments ==
    /\ Len(kbDocs) + Len(LoadAll(disk)) <= MaxDocs
    /\ kbDocs' = kbDocs \o LoadAll(disk)
    /\ ragOp' = [NoRagOp EXCEPT !.op = "load_documents"]
    /\ UNCHANGED <<llmVars, agentVars, disk, retr, buildOp, now, cacheVars, detVars, routerVars, threadVars>>

\* RAGRetriever.__init__ and _build_index, lines 88-123. An ImportError
\* (lines 90-91) is caught at line 99; whatever else SentenceTransformer(...)
\* raises at line 92 leaves __init__ and no instance is made.
Construct(backend) ==
    /\ backend = "available" => Len(kbDocs) + Len(LoadAll(disk)) <= MaxDocs
    /\ CASE backend = "packages_missing" ->
              /\ retr' = [mode |-> "fallback", transformer |-> FALSE,
                          docs |-> "unset", index |-> << >>]
              /\ kbDocs' = kbDocs
              /\ ragOp' = [NoRagOp EXCEPT !.op = "construct", !.backend = backend]
         [] backend = "model_unavailable" ->
              /\ retr' = retr
              /\ kbDocs' = kbDocs
              /\ ragOp' = [NoRagOp EXCEPT !.op = "construct", !.backend = backend,
                                          !.raised = "OSError"]
         [] backend = "available" ->
              LET documents == kbDocs \o LoadAll(disk)
              IN  /\ kbDocs' = documents
                  /\ retr' = [mode |-> "similarity", transformer |-> TRUE,
                              docs |-> "kb",
                              index |-> [i \in 1..Len(documents) |->
                                            Embedding[documents[i]]]]
                  /\ ragOp' = [NoRagOp EXCEPT !.op = "construct", !.backend = backend]
    /\ UNCHANGED <<llmVars, agentVars, disk, buildOp, now, cacheVars, detVars, routerVars, threadVars>>

\* retrieve, lines 125-145, by a query embedded at q; `fault` says whether
\* encode or search raises inside the try block. An index without vectors is
\* None; self.documents is the list kb.documents (line 110 binds it) or, on
\* an instance made at lines 99-103, an attribute that was never set.
RetrieveDegrading(q, top_k, fault) ==
    /\ retr.mode # "none"
    /\ LET call == [NoRagOp EXCEPT !.op = "retrieve", !.k = top_k, !.q = q]
       IN  ragOp' =
             IF ~retr.transformer \/ retr.index = << >> \/ kbDocs = << >>
             THEN IF retr.docs = "unset"
                  THEN [call EXCEPT !.path = "fallback", !.raised = "AttributeError"]
                  ELSE [call EXCEPT !.path = "fallback",
                                    !.results = ZeroScored(kbDocs, top_k)]
             ELSE IF fault \/ top_k = 0
                  THEN [call EXCEPT !.path = "except",
                                    !.results = ZeroScored(kbDocs, top_k)]
                  ELSE [call EXCEPT !.path = "search",
                           !.results =
                              Collect(IndexSearch(retr.index, q,
                                                  SearchCount(top_k, Len(kbDocs))),
                                      kbDocs)]
    /\ retr' = IF retr.transformer /\ retr.index # << >> /\ kbDocs # << >>
                  /\ (fault \/ top_k = 0)
               THEN [retr EXCEPT !.index = << >>] ELSE retr
    /\ UNCHANGED <<llmVars, agentVars, kbDocs, disk, buildOp, now, cacheVars, detVars,
                   routerVars, threadVars>>
Retrieve(q, top_k, fault) ==
    /\ retr.mode # "none"
    /\ LET call == [NoRagOp EXCEPT !.op = "retrieve", !.k = top_k, !.q = q]
       IN  ragOp' =
             IF ~retr.transformer \/ retr.index = << >> \/ kbDocs = << >>
             THEN IF retr.docs = "unset"
                  THEN [call EXCEPT !.path = "fallback", !.raised = "AttributeError"]
                  ELSE [call EXCEPT !.path = "fallback",
                                    !.results = ZeroScored(kbDocs, top_k)]
             ELSE IF fault \/ top_k = 0
                  THEN [call EXCEPT !.path = "except",
                                    !.results = ZeroScored(kbDocs, top_k)]
                  ELSE [call EXCEPT !.path = "search",
                           !.results =
                              Collect(IndexSearch(retr.index, q,
                                                  SearchCount(top_k, Len(kbDocs))),
                                      kbDocs)]
    /\ UNCHANGED <<llmVars, agentVars, kbDocs, disk, retr, buildOp, now, cacheVars, detVars,
                   routerVars, threadVars>>

(***************************************************************************)
(* RAGContext.build_context. A text is the list of its parts; a document   *)
(* is given by the number of whitespace-delimited words in each field the  *)
(* block shows.                                                            *)
(***************************************************************************)
MaxResults == 6
MaxTokens == 16

\* A document whose four fields are empty strings, and one with one-word
\* source, category and title and a two-word content
ContextDocs ==
    {[source |-> 0, category |-> 0, title |-> 0, content |-> 0],
     [source |-> 1, category |-> 1, title |-> 1, content |-> 2]}

\* Lines 173-174: len(doc_text.split()) for
\* "Source: {source} ({category})\nTitle: {title}\n{content}\n". The brackets
\* stick to the category's words, or stand as the word "()" when it is empty.
BlockWords(doc) ==
    1 + doc.source + (IF doc.category = 0 THEN 1 ELSE doc.category)
      + 1 + doc.title + doc.content

\* Line 176: if token_count + tokens > max_tokens: break
ExceedsOrFills(token_count, tokens, max_tokens) == token_count + tokens >= max_tokens
Exceeds(token_count, tokens, max_tokens) == token_count + tokens > max_tokens

\* Lines 172-180: the loop, from the documents still to visit
RECURSIVE BuildLoop(_, _, _, _)
BuildLoop(rest, context_parts, token_count, max_tokens) ==
    IF rest = << >> THEN context_parts
    ELSE LET tokens == BlockWords(Head(rest)[1])
         IN  IF Exceeds(token_count, tokens, max_tokens) THEN context_parts
             ELSE BuildLoop(Tail(rest),
                            Append(context_parts,
                                   [kind |-> "block", doc |-> Head(rest)[1],
                                    words |-> tokens]),
                            token_count + tokens, max_tokens)

\* "\n---\n", one word between two blocks
Divider == [kind |-> "divider", doc |-> [source |-> 0, category |-> 0,
                                         title |-> 0, content |-> 0],
            words |-> 1]

\* Line 182: "\n---\n".join(context_parts)
RECURSIVE Join(_)
Join(parts) ==
    IF Len(parts) <= 1 THEN parts
    ELSE <<Head(parts), Divider>> \o Join(Tail(parts))

\* len(text.split()) of a text given by its parts
RECURSIVE WordCount(_)
WordCount(text) ==
    IF text = << >> THEN 0 ELSE Head(text).words + WordCount(Tail(text))

\* build_context(documents, max_tokens), lines 166-182
BuildContext ==
    /\ buildOp.op = "call"
    /\ buildOp' = [buildOp EXCEPT !.op = "build_context",
                      !.text = Join(BuildLoop(buildOp.documents, << >>, 0,
                                              buildOp.max_tokens))]
    /\ UNCHANGED <<llmVars, agentVars, kbDocs, disk, retr, ragOp, now, cacheVars, detVars,
                   routerVars, threadVars>>

(***************************************************************************)
(* GeminiProvider.generate. One step per pass of the while loop: the call  *)
(* to the backend, what the pass does with its outcome, and whatever of    *)
(* the loops' exits follows from it.                                       *)
(***************************************************************************)
\* line 56
max_retries == 3

\* lines 61-66
model_names == <<"gemini-2.0-flash", "gemini-1.5-flash", "gemini-1.5-pro", "gemini-pro">>

\* A pass ends with a response that has a text, with one that has none
\* (line 85 false), or with an exception; markers is what the lower-cased
\* text of the exception holds of the words tested at lines 106 and 110-112.
BackendOutcomes ==
    {[kind |-> "text", markers |-> {}], [kind |-> "empty", markers |-> {}]}
    \cup {[kind |-> "exception", markers |-> ms] : ms \in SUBSET {"not found", "404", "429"}}

NoError == [kind |-> "none", markers |-> {}]

RECURSIVE Pow2(_)
Pow2(n) == IF n = 0 THEN 1 ELSE 2 * Pow2(n - 1)

\* line 106: "not found" in error_str or "404" in error_str
ModelNotFound(outcome) ==
    outcome.kind = "exception" /\ outcome.markers \cap {"not found", "404"} # {}

\* lines 110-112: any of 'quota', 'rate', 'limit', '429', '503' in error_str
RateLimited(outcome) ==
    outcome.kind = "exception" /\ outcome.markers \cap {"429"} # {}

\* retry_count counted for exceptions only
CountedExceptionsOnly(outcome, retry_count) ==
    IF outcome.kind = "exception" THEN retry_count + 1 ELSE retry_count

\* lines 93 and 103: retry_count += 1
Counted(outcome, retry_count) == retry_count + 1

\* no exception leaves the while loop
BreaksNever(outcome) == FALSE

\* lines 106-108: break
Breaks(outcome) == ModelNotFound(outcome)

\* lines 94 and 110-117: the time slept before the next pass
Slept(outcome, retry_count) ==
    IF outcome.kind = "empty" THEN Pow2(retry_count)
    ELSE IF ModelNotFound(outcome) THEN 0
    ELSE IF RateLimited(outcome)
         THEN (IF 10 <= Pow2(retry_count) THEN 10 ELSE Pow2(retry_count))
    ELSE IF retry_count < max_retries THEN Pow2(retry_count)
    ELSE 0

\* pc: "idle", "calling", "returned" or "raised"; model: the position of the
\* for loop in model_names; tried and left: the calls made to each model and
\* why the while loop of the model was left; calls: the calls of this generate.
IdleGen == [pc |-> "idle", model |-> 0, retry_count |-> 0, last_error |-> NoError,
            calls |-> 0, tried |-> [m \in 1..Len(model_names) |-> 0],
            left |-> [m \in 1..Len(model_names) |-> "no"], slept |-> 0,
            ret |-> None]

\* generate is called: lines 56-58 and the entry of the for loop, lines 68-69
GenerateCall ==
    /\ gen.pc # "calling"
    /\ gen' = [IdleGen EXCEPT !.pc = "calling", !.model = 1]
    /\ UNCHANGED <<agentVars, now, cacheVars, detVars, routerVars, threadVars, ragVars>>

\* One pass of the while loop, lines 70-117, then lines 69-70 of the next
\* model or lines 119-122 when there is none.
GenerateAttempt(outcome) ==
    LET m == gen.model
        called == [gen EXCEPT !.calls = @ + 1, !.tried[m] = @ + 1]
    IN
    /\ gen.pc = "calling"
    /\ IF outcome.kind = "text"
       THEN gen' = [called EXCEPT !.pc = "returned", !.ret = "response.text",
                                  !.left[m] = "returned", !.slept = 0]
       ELSE LET retry_count == Counted(outcome, gen.retry_count)
                leaves == Breaks(outcome) \/ ~(retry_count < max_retries)
                failed == [called EXCEPT
                             !.last_error = outcome,
                             !.retry_count = retry_count,
                             !.slept = Slept(outcome, retry_count),
                             !.left[m] = IF Breaks(outcome) THEN "not_found"
                                         ELSE IF leaves THEN "exhausted" ELSE "no"]
            IN  gen' = IF ~leaves THEN failed
                       ELSE IF m < Len(model_names)
                            THEN [failed EXCEPT !.model = m + 1, !.retry_count = 0]
                            ELSE [failed EXCEPT !.pc = "raised",
                                                !.ret = "RuntimeError: All models failed"]
    /\ UNCHANGED <<agentVars, now, cacheVars, detVars, routerVars, threadVars, ragVars>>

(***************************************************************************)
(* Agent: the memory of base_agent.py                                      *)
(***************************************************************************)
Entries == {"e1", "e2", "e3"}

NoMemOp == [op |-> "init", limit |-> 0, ret |-> << >>]

\* add_to_memory, lines 28-31
AddToMemory(e) ==
    /\ Len(memory) < MaxMemory
    /\ memory' = Append(memory, [content |-> e, timestamp |-> now])
    /\ memOp' = [op |-> "add_to_memory", limit |-> 0, ret |-> << >>]
    /\ UNCHANGED <<llmVars, now, cacheVars, detVars, routerVars, threadVars, ragVars>>

\* get_memory, lines 33-35: self.memory[-limit:]
GetMemory(limit) ==
    /\ memOp' = [op |-> "get_memory", limit |-> limit,
                 ret |-> LastMessages(memory, limit)]
    /\ UNCHANGED <<llmVars, memory, now, cacheVars, detVars, routerVars, threadVars, ragVars>>

\* clear_memory, lines 37-39
ClearMemory ==
    /\ memory' = << >>
    /\ memOp' = [op |-> "clear_memory", limit |-> 0, ret |-> << >>]
    /\ UNCHANGED <<llmVars, now, cacheVars, detVars, routerVars, threadVars, ragVars>>

(***************************************************************************)
(* Specifications                                                          *)
(***************************************************************************)
\* The cache under set/get/clear and the passing of time, for every TTL.
InitCache ==
    /\ now = 0
    /\ gen = IdleGen
    /\ memory = << >>
    /\ memOp = NoMemOp
    /\ cache = EmptyDict
    /\ ttl_seconds \in 0..MaxTTL
    /\ cacheOp = NoCacheOp
    /\ lastSet = [k \in Keys |-> NeverSet]
    /\ keywords = BuildIntentKeywords
    /\ detOp = NoDetOp
    /\ sessions = EmptyDict
    /\ agents = AgentType
    /\ callOp = NoCall
    /\ okLog = [u \in Users |-> << >>]
    /\ heap = << >>
    /\ sessRef = EmptyDict
    /\ thr = [t \in Threads |-> IdleThread]
    /\ view0 = << >>
    /\ cthr = [t \in Threads |-> IdleCacheThread]
    /\ kbDocs = << >>
    /\ disk = << >>
    /\ retr = NoRetriever
    /\ ragOp = NoRagOp
    /\ buildOp = NoBuildOp

NextCache ==
    \/ \E k \in Keys : CacheGet(k)
    \/ \E k \in Keys, v \in Values : CacheSet(k, v)
    \/ CacheClear
    \/ CacheTick

SpecCache == InitCache /\ [][NextCache]_vars

\* The IntentDetector applied to every query of Queries.
InitIntent ==
    /\ now = 0
    /\ gen = IdleGen
    /\ memory = << >>
    /\ memOp = NoMemOp
    /\ cache = EmptyDict
    /\ ttl_seconds = 0
    /\ cacheOp = NoCacheOp
    /\ lastSet = [k \in Keys |-> NeverSet]
    /\ keywords = BuildIntentKeywords
    /\ detOp \in {[NoDetOp EXCEPT !.query = q] : q \in Queries}
    /\ sessions = EmptyDict
    /\ agents = AgentType
    /\ callOp = NoCall
    /\ okLog = [u \in Users |-> << >>]
    /\ heap = << >>
    /\ sessRef = EmptyDict
    /\ thr = [t \in Threads |-> IdleThread]
    /\ view0 = << >>
    /\ cthr = [t \in Threads |-> IdleCacheThread]
    /\ kbDocs = << >>
    /\ disk = << >>
    /\ retr = NoRetriever
    /\ ragOp = NoRagOp
    /\ buildOp = NoBuildOp

NextIntent ==
    \/ DetDetectIntent
    \/ DetExtractContext

SpecIntent == InitIntent /\ [][NextIntent]_vars

\* The ConversationManager and its router under sequential calls. The clock
\* stands still here: add_message stamps every record with the same `now`.
Init ==
    /\ now = 0
    /\ gen = IdleGen
    /\ memory = << >>
    /\ memOp = NoMemOp
    /\ cache = EmptyDict
    /\ ttl_seconds = 0
    /\ cacheOp = NoCacheOp
    /\ lastSet = [k \in Keys |-> NeverSet]
    /\ keywords = BuildIntentKeywords
    /\ detOp = NoDetOp
    /\ sessions = EmptyDict
    /\ agents \in AgentConfigs
    /\ callOp = NoCall
    /\ okLog = [u \in Users |-> << >>]
    /\ heap = << >>
    /\ sessRef = EmptyDict
    /\ thr = [t \in Threads |-> IdleThread]
    /\ view0 = << >>
    /\ cthr = [t \in Threads |-> IdleCacheThread]
    /\ kbDocs = << >>
    /\ disk = << >>
    /\ retr = NoRetriever
    /\ ragOp = NoRagOp
    /\ buildOp = NoBuildOp

Next ==
    \/ \E u \in Users : CreateSession(u)
    \/ \E u \in Users : GetSession(u)
    \/ \E u \in Users, q \in RouterQueries, o \in ResponderOutcomes :
          ProcessMessage(u, q, o)
    \/ \E u \in Users, h \in Portfolios : UpdatePortfolio(u, h)
    \/ \E u \in Users, g \in GoalRecords : SetGoal(u, g)
    \/ \E u \in Users : ClearSession(u)
    \/ \E u \in Users, limit \in Limits : GetConversationHistory(u, limit)
    \/ \E u \in Users : GetSessionSummary(u)

Spec == Init /\ [][Next]_vars

\* Two threads sharing one ConversationManager, each making one call; every
\* interleaving of their steps.
InitThreads ==
    /\ now = 0
    /\ gen = IdleGen
    /\ memory = << >>
    /\ memOp = NoMemOp
    /\ cache = EmptyDict
    /\ ttl_seconds = 0
    /\ cacheOp = NoCacheOp
    /\ lastSet = [k \in Keys |-> NeverSet]
    /\ keywords = BuildIntentKeywords
    /\ detOp = NoDetOp
    /\ sessions = EmptyDict
    /\ agents = AgentType
    /\ callOp = NoCall
    /\ okLog = [u \in Users |-> << >>]
    /\ heap \in StartHeaps
    /\ sessRef = [u \in {heap[i].user_id : i \in 1..Len(heap)} |-> 1]
    /\ thr \in [Threads -> {[call |-> c, pc |-> "start", ref |-> NoRef, ret |-> None] :
                               c \in ThreadCalls}]
    /\ view0 = heap
    /\ cthr = [t \in Threads |-> IdleCacheThread]
    /\ kbDocs = << >>
    /\ disk = << >>
    /\ retr = NoRetriever
    /\ ragOp = NoRagOp
    /\ buildOp = NoBuildOp

NextThreads ==
    \/ \E t \in Threads : ThrGetSession(t)
    \/ \E t \in Threads : ThrCreateSession(t)
    \/ \E t \in Threads : ThrRoute(t)
    \/ \E t \in Threads : ThrRespond(t)
    \/ \E t \in Threads : ThrAddMessage(t)
    \/ \E t \in Threads : ThrWrite(t)
    \/ \E t \in Threads : ThrClearCheck(t)
    \/ \E t \in Threads : ThrClearDel(t)

SpecThreads == InitThreads /\ [][NextThreads]_vars

\* Two threads sharing one MarketDataCache, every interleaving of the steps
\* of their get, set and clear calls, while time passes.
InitCacheThreads ==
    /\ now = 0
    /\ gen = IdleGen
    /\ memory = << >>
    /\ memOp = NoMemOp
    /\ cache = EmptyDict
    /\ ttl_seconds \in 0..MaxTTL
    /\ cacheOp = NoCacheOp
    /\ lastSet = [k \in Keys |-> NeverSet]
    /\ keywords = BuildIntentKeywords
    /\ detOp = NoDetOp
    /\ sessions = EmptyDict
    /\ agents = AgentType
    /\ callOp = NoCall
    /\ okLog = [u \in Users |-> << >>]
    /\ heap = << >>
    /\ sessRef = EmptyDict
    /\ thr = [t \in Threads |-> IdleThread]
    /\ view0 = << >>
    /\ cthr = [t \in Threads |-> IdleCacheThread]
    /\ kbDocs = << >>
    /\ disk = << >>
    /\ retr = NoRetriever
    /\ ragOp = NoRagOp
    /\ buildOp = NoBuildOp

NextCacheThreads ==
    \/ \E t \in Threads, k \in Keys : CtGetTest(t, k)
    \/ \E t \in Threads : CtGetRead(t)
    \/ \E t \in Threads : CtGetCompare(t)
    \/ \E t \in Threads : CtGetDel(t)
    \/ \E t \in Threads, k \in Keys, v \in Values : CtSet(t, k, v)
    \/ \E t \in Threads : CtClear(t)
    \/ CacheTick

SpecCacheThreads == InitCacheThreads /\ [][NextCacheThreads]_vars

\* A KnowledgeBase over the files of one directory and the RAGRetriever
\* built from it, for every backend outcome.
InitRag ==
    /\ now = 0
    /\ gen = IdleGen
    /\ memory = << >>
    /\ memOp = NoMemOp
    /\ cache = EmptyDict
    /\ ttl_seconds = 0
    /\ cacheOp = NoCacheOp
    /\ lastSet = [k \in Keys |-> NeverSet]
    /\ keywords = BuildIntentKeywords
    /\ detOp = NoDetOp
    /\ sessions = EmptyDict
    /\ agents = AgentType
    /\ callOp = NoCall
    /\ okLog = [u \in Users |-> << >>]
    /\ heap = << >>
    /\ sessRef = EmptyDict
    /\ thr = [t \in Threads |-> IdleThread]
    /\ view0 = << >>
    /\ cthr = [t \in Threads |-> IdleCacheThread]
    /\ kbDocs = << >>
    /\ disk \in Disks
    /\ retr = NoRetriever
    /\ ragOp = NoRagOp
    /\ buildOp = NoBuildOp

NextRag ==
    \/ \E d \in Docs : AddDocument(d)
    \/ LoadDocuments
    \/ \E b \in Backends : Construct(b)
    \/ \E q \in 0..MaxCoord, k \in 0..MaxTopK, fault \in BOOLEAN : Retrieve(q, k, fault)

SpecRag == InitRag /\ [][NextRag]_vars

\* build_context on every list of at most MaxResults scored documents and
\* every budget up to MaxTokens.
InitContext ==
    /\ now = 0
    /\ gen = IdleGen
    /\ memory = << >>
    /\ memOp = NoMemOp
    /\ cache = EmptyDict
    /\ ttl_seconds = 0
    /\ cacheOp = NoCacheOp
    /\ lastSet = [k \in Keys |-> NeverSet]
    /\ keywords = BuildIntentKeywords
    /\ detOp = NoDetOp
    /\ sessions = EmptyDict
    /\ agents = AgentType
    /\ callOp = NoCall
    /\ okLog = [u \in Users |-> << >>]
    /\ heap = << >>
    /\ sessRef = EmptyDict
    /\ thr = [t \in Threads |-> IdleThread]
    /\ view0 = << >>
    /\ cthr = [t \in Threads |-> IdleCacheThread]
    /\ kbDocs = << >>
    /\ disk = << >>
    /\ retr = NoRetriever
    /\ ragOp = NoRagOp
    /\ \E n \in 0..MaxResults, max_tokens \in 0..MaxTokens :
          \E documents \in [1..n -> ContextDocs \X {0}] :
             buildOp = [op |-> "call", documents |-> documents,
                        max_tokens |-> max_tokens, text |-> << >>]

NextContext == BuildContext

SpecContext == InitContext /\ [][NextContext]_vars

\* route() on a session that holds a portfolio, among them portfolios with a
\* symbol spelled like a key of the context: update_portfolio takes any dict.
ClashPortfolios == {[AAPL |-> 10], [AAPL |-> 10, hints |-> 5], [goals |-> 3]}

InitRoute ==
    /\ now = 0
    /\ gen = IdleGen
    /\ memory = << >>
    /\ memOp = NoMemOp
    /\ cache = EmptyDict
    /\ ttl_seconds = 0
    /\ cacheOp = NoCacheOp
    /\ lastSet = [k \in Keys |-> NeverSet]
    /\ keywords = BuildIntentKeywords
    /\ detOp = NoDetOp
    /\ \E h \in ClashPortfolios, g \in {<< >>} \cup {<<r>> : r \in GoalRecords} :
          sessions = [u \in {"u1"} |->
                         [NewState(u) EXCEPT !.portfolio = h, !.goals = g]]
    /\ agents = AgentType
    /\ callOp = NoCall
    /\ okLog = [u \in Users |-> << >>]
    /\ heap = << >>
    /\ sessRef = EmptyDict
    /\ thr = [t \in Threads |-> IdleThread]
    /\ view0 = << >>
    /\ cthr = [t \in Threads |-> IdleCacheThread]
    /\ kbDocs = << >>
    /\ disk = << >>
    /\ retr = NoRetriever
    /\ ragOp = NoRagOp
    /\ buildOp = NoBuildOp

NextRoute ==
    \E u \in Users, q \in RouterQueries, o \in ResponderOutcomes :
        ProcessMessage(u, q, o)

SpecRoute == InitRoute /\ [][NextRoute]_vars

\* One provider with its cache, for every TTL: quotes asked for while time
\* passes, the backend answering each fetch in every way.
InitQuote ==
    /\ now = 0
    /\ gen = IdleGen
    /\ memory = << >>
    /\ memOp = NoMemOp
    /\ cache = EmptyDict
    /\ ttl_seconds \in 0..MaxTTL
    /\ cacheOp = NoCacheOp
    /\ lastSet = [k \in Keys |-> NeverSet]
    /\ keywords = BuildIntentKeywords
    /\ detOp = NoDetOp
    /\ sessions = EmptyDict
    /\ agents = AgentType
    /\ callOp = NoCall
    /\ okLog = [u \in Users |-> << >>]
    /\ heap = << >>
    /\ sessRef = EmptyDict
    /\ thr = [t \in Threads |-> IdleThread]
    /\ view0 = << >>
    /\ cthr = [t \in Threads |-> IdleCacheThread]
    /\ kbDocs = << >>
    /\ disk = << >>
    /\ retr = NoRetriever
    /\ ragOp = NoRagOp
    /\ buildOp = NoBuildOp

NextQuote ==
    \/ \E s \in Symbols, o \in FetchOutcomes, took \in {0, 1} :
          GetStockQuote(s, o, took)
    \/ CacheTick

SpecQuote == InitQuote /\ [][NextQuote]_vars

\* One GeminiProvider: generate called again and again, the backend answering
\* each call in every way.
InitLlm ==
    /\ now = 0
    /\ gen = IdleGen
    /\ memory = << >>
    /\ memOp = NoMemOp
    /\ cache = EmptyDict
    /\ ttl_seconds = 0
    /\ cacheOp = NoCacheOp
    /\ lastSet = [k \in Keys |-> NeverSet]
    /\ keywords = BuildIntentKeywords
    /\ detOp = NoDetOp
    /\ sessions = EmptyDict
    /\ agents = AgentType
    /\ callOp = NoCall
    /\ okLog = [u \in Users |-> << >>]
    /\ heap = << >>
    /\ sessRef = EmptyDict
    /\ thr = [t \in Threads |-> IdleThread]
    /\ view0 = << >>
    /\ cthr = [t \in Threads |-> IdleCacheThread]
    /\ kbDocs = << >>
    /\ disk = << >>
    /\ retr = NoRetriever
    /\ ragOp = NoRagOp
    /\ buildOp = NoBuildOp

NextLlm ==
    \/ GenerateCall
    \/ \E o \in BackendOutcomes : GenerateAttempt(o)

SpecLlm == InitLlm /\ [][NextLlm]_vars

\* One agent: entries added to its memory, read back under every limit, and
\* the memory cleared.
InitMemory ==
    /\ now = 0
    /\ gen = IdleGen
    /\ memory = << >>
    /\ memOp = NoMemOp
    /\ cache = EmptyDict
    /\ ttl_seconds = 0
    /\ cacheOp = NoCacheOp
    /\ lastSet = [k \in Keys |-> NeverSet]
    /\ keywords = BuildIntentKeywords
    /\ detOp = NoDetOp
    /\ sessions = EmptyDict
    /\ agents = AgentType
    /\ callOp = NoCall
    /\ okLog = [u \in Users |-> << >>]
    /\ heap = << >>
    /\ sessRef = EmptyDict
    /\ thr = [t \in Threads |-> IdleThread]
    /\ view0 = << >>
    /\ cthr = [t \in Threads |-> IdleCacheThread]
    /\ kbDocs = << >>
    /\ disk = << >>
    /\ retr = NoRetriever
    /\ ragOp = NoRagOp
    /\ buildOp = NoBuildOp

NextMemory ==
    \/ \E e \in Entries : AddToMemory(e)
    \/ \E limit \in 0..MaxMemory : GetMemory(limit)
    \/ ClearMemory

SpecMemory == InitMemory /\ [][NextMemory]_vars

(***************************************************************************)
(* Properties of MarketDataCache, checked under SpecCache                  *)
(***************************************************************************)
\* C1: get(k) never returns a value whose age, now minus the time of the last
\* set(k), is ttl_seconds or more: it then returns None and the entry is gone,
\* and so does every later get(k) until the next set(k).
C1_GetNeverReturnsExpired ==
    /\ \A k \in Keys : lastSet[k].evicted => k \notin DOMAIN cache
    /\ cacheOp.op = "get" =>
          LET k == cacheOp.key
              age == now - lastSet[k].time
          IN  /\ cacheOp.ret # None => (lastSet[k].time >= 0 /\ age < ttl_seconds)
              /\ (lastSet[k].time >= 0 /\ age >= ttl_seconds) =>
                    (cacheOp.ret = None /\ k \notin DOMAIN cache)
              /\ lastSet[k].evicted => cacheOp.ret = None

\* A get(k) that finds nothing because an earlier get(k) evicted the entry.
C1_Witness ==
    /\ cacheOp.op = "get"
    /\ cacheOp.branch = "miss"
    /\ lastSet[cacheOp.key].evicted
    /\ ~lastSet[cacheOp.key].cleared
    /\ cacheOp.ret = None

\* C2: a get(k) issued less than ttl_seconds after the most recent set(k, v),
\* with no clear in between, returns v, whatever set(k, v) replaced.
C2_GetReturnsLastSet ==
    cacheOp.op = "get" =>
        LET last == lastSet[cacheOp.key]
        IN  (last.time >= 0 /\ ~last.cleared /\ now - last.time < ttl_seconds)
                => cacheOp.ret = last.value

\* A get(k) that returns the value of a set(k, v) which replaced an expired entry.
C2_Witness ==
    /\ cacheOp.op = "get"
    /\ lastSet[cacheOp.key].replaced = "stale"
    /\ now > lastSet[cacheOp.key].time
    /\ cacheOp.ret = lastSet[cacheOp.key].value
    /\ cacheOp.ret # None

(***************************************************************************)
(* Properties of IntentDetector, checked under SpecIntent                  *)
(***************************************************************************)
FixedOrder == <<FINANCE_QA, PORTFOLIO_ANALYSIS, MARKET_ANALYSIS, GOAL_PLANNING,
                NEWS_SYNTHESIZER, TAX_EDUCATION>>

\* The triggers the keyword table gives an agent type
TriggersOf(agent) ==
    UNION {Range(keywords[i][2]) : i \in {j \in 1..Len(keywords) : keywords[j][1] = agent}}

\* The places in FixedOrder of the categories with a trigger that occurs in
\* the lower-cased query (computed on the strings, not from the table)
MatchingCategories ==
    {i \in 1..Len(FixedOrder) :
        \E w \in TriggersOf(FixedOrder[i]) : Contains(Lower(detOp.query), w)}

FixtureExpected ==
    [q \in {"What is a stock?", "Analyze my portfolio", "What's the market doing?",
            "Help me plan for retirement", "Tell me about this news", "Explain 401k"} |->
        CASE q = "What is a stock?" -> FINANCE_QA
          [] q = "Analyze my portfolio" -> PORTFOLIO_ANALYSIS
          [] q = "What's the market doing?" -> MARKET_ANALYSIS
          [] q = "Help me plan for retirement" -> GOAL_PLANNING
          [] q = "Tell me about this news" -> NEWS_SYNTHESIZER
          [] q = "Explain 401k" -> TAX_EDUCATION]

\* C4: every query of the fixture is classified to the agent the fixture pairs
\* it with: "Tell me about this news" to NEWS_SYNTHESIZER and "Explain 401k"
\* to TAX_EDUCATION, although each also holds a FINANCE_QA phrase.
C4_FixtureIntents ==
    ("detect_intent" \in detOp.did /\ detOp.query \in DOMAIN FixtureExpected)
        => detOp.intent = FixtureExpected[detOp.query]

(***************************************************************************)
(* Properties of WorkflowRouter and ConversationManager, checked under Spec *)
(***************************************************************************)
HasPrefix(s, prefix) ==
    Len(s) >= Len(prefix) /\ SubSeq(s, 1, Len(prefix)) = prefix

IsPrefixOf(a, b) == Len(a) <= Len(b) /\ SubSeq(b, 1, Len(a)) = a

ReachedResponder ==
    /\ callOp.op = "process_message"
    /\ callOp.kind = "response" \/ callOp.raised = "responder"

\* C5: the context handed to the responder holds the session's portfolio
\* under 'holdings' and its goal list under 'goals'.
C5_HoldingsUnderDedicatedKey ==
    (ReachedResponder /\ sessions[callOp.user].portfolio # EmptyDict) =>
        /\ "goals" \in DOMAIN callOp.out
        /\ callOp.out["goals"] = sessions[callOp.user].goals
        /\ "holdings" \in DOMAIN callOp.out
        /\ callOp.out["holdings"] = sessions[callOp.user].portfolio

\* C6: the message list of a session is, for each completed exchange in call
\* order, a 'user' record with the query followed by an 'assistant' record
\* with the text returned: 2n records after n such calls.
C6_TwoRecordsPerExchange ==
    /\ \A u \in Users \ DOMAIN sessions : okLog[u] = << >>
    /\ \A u \in DOMAIN sessions :
          LET m == sessions[u].messages
              n == Len(okLog[u])
          IN  /\ Len(m) = 2 * n
              /\ \A i \in 1..n :
                    /\ m[2 * i - 1].role = "user"
                    /\ m[2 * i - 1].content = okLog[u][i][1]
                    /\ m[2 * i].role = "assistant"
                    /\ m[2 * i].content = okLog[u][i][2]
    /\ (callOp.op = "process_message" /\ callOp.kind = "response") =>
          LET m == sessions[callOp.user].messages
              b == Len(callOp.before)
          IN  /\ Len(m) = b + 2
              /\ SubSeq(m, 1, b) = callOp.before
              /\ m[b + 1].content = callOp.query
              /\ m[b + 2].content = callOp.ret

\* Two exchanges of one session, with different queries, in call order.
C6_Witness ==
    /\ callOp.op = "process_message"
    /\ callOp.kind = "response"
    /\ Len(okLog[callOp.user]) = 2
    /\ okLog[callOp.user][1][1] # okLog[callOp.user][2][1]
    /\ Len(sessions[callOp.user].messages) = 4

\* C7: when the responder raises, the message list gains a 'user' record with
\* the query and nothing else.
C7_FailedQueryIsRecorded ==
    (callOp.op = "process_message" /\ callOp.raised = "responder") =>
        LET m == sessions[callOp.user].messages
            b == Len(callOp.before)
        IN  /\ Len(m) = b + 1
            /\ SubSeq(m, 1, b) = callOp.before
            /\ m[b + 1].role = "user"
            /\ m[b + 1].content = callOp.query

\* C8: whatever raises inside route, route returns a string that starts with
\* 'Error processing request: '; the 'not configured' return does not start
\* so, and a responder's text is returned as it is.
C8_ExceptionsBecomeErrorStrings ==
    callOp.op = "process_message" =>
        /\ callOp.kind \in {"response", "not_configured", "error"}
        /\ callOp.raised # "nothing" <=> callOp.kind = "error"
        /\ callOp.kind = "error" => HasPrefix(callOp.ret, "Error processing request: ")
        /\ callOp.kind = "not_configured" =>
              ~HasPrefix(callOp.ret, "Error processing request: ")
        /\ callOp.kind = "response" => callOp.ret \in ResponseTexts

\* A responder that raised on a session with history.
C8_Witness ==
    /\ callOp.op = "process_message"
    /\ callOp.raised = "responder"
    /\ callOp.kind = "error"
    /\ Len(callOp.before) > 0

\* C9: with no responder for the detected intent, route returns a string that
\* holds 'not configured' and the intent's name, raises nothing, and leaves
\* the session in place with its messages.
C9_NotConfigured ==
    (callOp.op = "process_message" /\ callOp.kind = "not_configured") =>
        /\ Contains(callOp.ret, "not configured")
        /\ \E a \in AgentType \ agents :
              /\ Contains(callOp.ret, a)
              /\ sessions[callOp.user].current_agent = a
        /\ callOp.raised = "nothing"
        /\ HasSession(callOp.user)
        /\ sessions[callOp.user].messages = callOp.before

\* A 'not configured' return on a session that already holds an exchange.
C9_Witness ==
    /\ callOp.op = "process_message"
    /\ callOp.kind = "not_configured"
    /\ Len(callOp.before) = 2
    /\ sessions[callOp.user].messages = callOp.before

\* C10: while a session lives (no clear_session and no create_session for its
\* user), every call leaves its earlier message records in place, in order.
C10_MessagesAppendOnly ==
    [][\A u \in Users :
          (/\ u \in DOMAIN sessions
           /\ u \in DOMAIN sessions'
           /\ ~(callOp'.op = "create_session" /\ callOp'.user = u))
          => IsPrefixOf(sessions[u].messages, sessions'[u].messages)]_vars

\* A second exchange appended to a session that held one.
C10_Witness ==
    /\ callOp.op = "process_message"
    /\ callOp.kind = "response"
    /\ Len(callOp.before) = 2
    /\ callOp.before[1].content # callOp.query
    /\ Len(sessions[callOp.user].messages) = 4

(***************************************************************************)
(* Properties of ConversationManager's session mapping, checked under Spec *)
(***************************************************************************)
\* The state create_session installs, field by field
FreshState(u) ==
    [user_id |-> u, messages |-> << >>, current_agent |-> None,
     context |-> EmptyDict, portfolio |-> EmptyDict, goals |-> << >>,
     preferences |-> EmptyDict]

\* C11: create_session(u) always leaves a fresh state under u (no messages,
\* context, portfolio, goals, preferences, no current agent), whatever was
\* stored before, and returns it; a get_session(u) right after it returns
\* that state; get_session changes nothing and returns None for an unknown u.
C11_CreateInstallsFreshState ==
    [][/\ callOp'.op = "create_session" =>
             /\ callOp'.user \in DOMAIN sessions'
             /\ sessions'[callOp'.user] = FreshState(callOp'.user)
             /\ callOp'.out = FreshState(callOp'.user)
       /\ callOp'.op = "get_session" =>
             /\ sessions' = sessions
             /\ IF callOp'.user \in DOMAIN sessions
                THEN callOp'.kind = "state" /\ callOp'.out = sessions[callOp'.user]
                ELSE callOp'.kind = "none" /\ callOp'.ret = None
       /\ (/\ callOp.op = "create_session"
           /\ callOp'.op = "get_session"
           /\ callOp'.user = callOp.user)
          => (callOp'.kind = "state" /\ callOp'.out = FreshState(callOp.user))]_vars

\* create_session on a user whose session held messages: they are gone.
C11_Witness ==
    /\ callOp.op = "create_session"
    /\ callOp.existed
    /\ Len(callOp.before) > 0
    /\ sessions[callOp.user] = FreshState(callOp.user)

\* C12: process_message(u, m) creates a session only when u has none; on an
\* existing session, with or without messages, it keeps the portfolio, the
\* goals, the preferences, the context keys and the earlier messages.
C12_ProcessKeepsExistingSession ==
    [][callOp'.op = "process_message" =>
          LET u == callOp'.user
          IN  /\ u \in DOMAIN sessions'
              /\ IF u \in DOMAIN sessions
                 THEN /\ IsPrefixOf(sessions[u].messages, sessions'[u].messages)
                      /\ sessions'[u].portfolio = sessions[u].portfolio
                      /\ sessions'[u].goals = sessions[u].goals
                      /\ sessions'[u].preferences = sessions[u].preferences
                      /\ DOMAIN sessions[u].context \subseteq DOMAIN sessions'[u].context
                 ELSE /\ sessions'[u].portfolio = EmptyDict
                      /\ sessions'[u].goals = << >>
                      /\ Len(sessions'[u].messages) \in {0, 2}]_vars

\* process_message on a session that held a portfolio and a goal but no
\* message yet: both are still there after the exchange.
C12_Witness ==
    /\ callOp.op = "process_message"
    /\ callOp.existed
    /\ callOp.before = << >>
    /\ sessions[callOp.user].portfolio # EmptyDict
    /\ Len(sessions[callOp.user].goals) > 0
    /\ Len(sessions[callOp.user].messages) = 2

\* C13: update_portfolio, set_goal and clear_session on a user without a
\* session raise nothing and leave the whole mapping as it was; after
\* clear_session(u) the user has no session, a get_session(u) that follows
\* returns None and a get_session_summary(u) that follows returns {}.
C13_NoSessionNoEffect ==
    [][/\ (/\ callOp'.op \in {"update_portfolio", "set_goal", "clear_session"}
           /\ callOp'.user \notin DOMAIN sessions)
          => (sessions' = sessions /\ callOp'.raised = "nothing")
       /\ callOp'.op = "clear_session" => callOp'.user \notin DOMAIN sessions'
       /\ (/\ callOp.op = "clear_session"
           /\ callOp'.user = callOp.user
           /\ callOp'.op = "get_session")
          => (callOp'.kind = "none" /\ callOp'.ret = None)
       /\ (/\ callOp.op = "clear_session"
           /\ callOp'.user = callOp.user
           /\ callOp'.op = "get_session_summary")
          => callOp'.out = EmptyDict]_vars

\* update_portfolio for a user without a session while another user has one.
C13_Witness ==
    /\ callOp.op = "update_portfolio"
    /\ ~callOp.existed
    /\ sessions # EmptyDict
    /\ ~HasSession(callOp.user)

(***************************************************************************)
(* Properties of ConversationManager under threads, checked under          *)
(* SpecThreads                                                             *)
(***************************************************************************)
AllDone == \A t \in Threads : thr[t].pc = "done"

\* The state user_id had when the threads started, as a list of zero or one
View0(user_id) ==
    LET at == {i \in 1..Len(view0) : view0[i].user_id = user_id}
    IN  IF at = {} THEN << >> ELSE <<view0[CHOOSE i \in at : TRUE]>>

\* What the call c leaves under its user when it runs alone on the state v0
SeqView(c, v0) ==
    CASE c.op = "process_message" ->
            <<Route(c.query, IF v0 = << >> THEN NewState(c.user) ELSE v0[1],
                    c.outcome).state>>
      [] c.op = "create_session" -> <<NewState(c.user)>>
      [] c.op = "update_portfolio" ->
            IF v0 = << >> THEN << >> ELSE <<[v0[1] EXCEPT !.portfolio = c.holdings]>>
      [] c.op = "set_goal" ->
            IF v0 = << >> THEN << >> ELSE <<[v0[1] EXCEPT !.goals = Append(@, c.goal)]>>
      [] c.op = "clear_session" -> << >>

\* C14: every step of a call addressed to one user leaves the state stored
\* for every other user as it was, and when two threads call for distinct
\* users, every interleaving of their steps ends with each user's state equal
\* to what that user's call leaves when it runs alone.
C14_SessionsAreIndependent ==
    /\ [][\A t \in Threads :
             thr'[t] # thr[t] =>
                \A u \in Users \ {thr[t].call.user} : View(u)' = View(u)]_vars
    /\ [](AllDone =>
             \A t \in Threads :
                (\A o \in Threads \ {t} : thr[o].call.user # thr[t].call.user)
                => View(thr[t].call.user)
                      = SeqView(thr[t].call, View0(thr[t].call.user)))

\* Two process_message calls for distinct users have both completed an
\* exchange: one on the session that was there, one on a session it created.
C14_Witness ==
    /\ AllDone
    /\ \A t \in Threads : thr[t].call.op = "process_message"
    /\ thr["t1"].call.user # thr["t2"].call.user
    /\ view0 # << >>
    /\ \A u \in Users : Len(View(u)) = 1 /\ Len(View(u)[1].messages) = 2
    /\ View("u1")[1].portfolio # EmptyDict

\* C15: when every thread calls process_message for one user that had no
\* session, a single state is installed and every call works on the state
\* the mapping holds.
C15_OneStateInstalled ==
    \A u \in Users :
        (/\ View0(u) = << >>
         /\ \A t \in Threads : thr[t].call.op = "process_message" /\ thr[t].call.user = u)
        => /\ Len(heap) <= Len(view0) + 1
           /\ \A t \in Threads :
                 thr[t].ref # NoRef => (u \in DOMAIN sessRef /\ sessRef[u] = thr[t].ref)

(***************************************************************************)
(* Properties of MarketDataCache under threads, checked under              *)
(* SpecCacheThreads                                                        *)
(***************************************************************************)
\* C16: whatever the interleaving of get, set and clear by threads sharing
\* one cache, no call fails, and a get returns None or a value that was set
\* and is younger than ttl_seconds.
C16_NoCacheCallFails ==
    \A t \in Threads :
        /\ cthr[t].res # "KeyError"
        /\ cthr[t].res = "hit" => (cthr[t].ret \in Values /\ cthr[t].age < ttl_seconds)
        /\ cthr[t].res \in {"miss", "expired"} => cthr[t].ret = None

(***************************************************************************)
(* Properties of RAGRetriever, checked under SpecRag                       *)
(***************************************************************************)
\* C17: on an instance made without a backend, retrieve(query, k) on a store
\* of more than k documents raises nothing and returns the first k documents
\* in insertion order, each with the score 0.0, whatever the query.
C17_FallbackReturnsFirstK ==
    (/\ ragOp.op = "retrieve"
     /\ retr.mode = "fallback"
     /\ ragOp.k < Len(kbDocs))
    => /\ ragOp.raised = "nothing"
       /\ Len(ragOp.results) = ragOp.k
       /\ \A i \in 1..Len(ragOp.results) : ragOp.results[i] = <<kbDocs[i], 0>>

\* C18: RAGRetriever(kb) raises nothing, and when the packages are missing or
\* the embedding model cannot be constructed it yields an instance in
\* fallback mode.
C18_ConstructorNeverFails ==
    ragOp.op = "construct"
    => /\ ragOp.raised = "nothing"
       /\ ragOp.backend \in {"packages_missing", "model_unavailable"}
             => retr.mode = "fallback"

\* C19: on an instance with a backend, retrieve(query, k) raises nothing and
\* returns at most k results, in non-decreasing order of distance, each
\* holding a document of the store; on an empty store it returns [].
C19_SimilarityResults ==
    (ragOp.op = "retrieve" /\ retr.mode = "similarity")
    => /\ ragOp.raised = "nothing"
       /\ Len(ragOp.results) <= ragOp.k
       /\ \A i \in 1..Len(ragOp.results) :
             /\ ragOp.results[i][1] \in Range(kbDocs)
             /\ i > 1 => ragOp.results[i - 1][2] <= ragOp.results[i][2]
       /\ kbDocs = << >> => ragOp.results = << >>

\* A search for fewer documents than the store holds whose nearest document
\* is not the first in insertion order.
C19_Witness ==
    /\ ragOp.op = "retrieve"
    /\ ragOp.path = "search"
    /\ ragOp.k < Len(kbDocs)
    /\ Len(ragOp.results) = 2
    /\ ragOp.results[1][2] < ragOp.results[2][2]
    /\ ragOp.results[1][1] # kbDocs[1]

(***************************************************************************)
(* Properties of RAGContext.build_context, checked under SpecContext       *)
(***************************************************************************)
\* The blocks of a text, without the dividers
Blocks(text) == SelectSeq(text, LAMBDA part : part.kind = "block")

\* The words of the blocks of the first n documents
RECURSIVE PrefixWords(_, _)
PrefixWords(documents, n) ==
    IF n = 0 THEN 0 ELSE BlockWords(documents[n][1]) + PrefixWords(documents, n - 1)

\* The text holds whole blocks only, those of the first documents in order,
\* as many as fit: each block was added with the running count within
\* max_tokens, and the block of the first document left out would exceed it
\* (whatever smaller blocks follow).
EmitsFittingPrefix ==
    LET documents == buildOp.documents
        blocks == Blocks(buildOp.text)
        p == Len(blocks)
    IN  /\ p <= Len(documents)
        /\ \A i \in 1..p : blocks[i].doc = documents[i][1]
                           /\ blocks[i].words = BlockWords(documents[i][1])
        /\ \A i \in 1..p : PrefixWords(documents, i) <= buildOp.max_tokens
        /\ p < Len(documents) => PrefixWords(documents, p + 1) > buildOp.max_tokens

\* C20 as stated: build_context emits the blocks of the longest fitting
\* prefix of the documents, and when a document was left out the word count
\* of the text is at most max_tokens plus the size of one such document.
C20_EmittedWithinBudgetPlusOne ==
    buildOp.op = "build_context" =>
       LET documents == buildOp.documents
           p == Len(Blocks(buildOp.text))
       IN  /\ EmitsFittingPrefix
           /\ p < Len(documents) =>
                 \E j \in (p + 1)..Len(documents) :
                    WordCount(buildOp.text)
                       <= buildOp.max_tokens + BlockWords(documents[j][1])

\* C20, amended: build_context emits the blocks of the longest fitting prefix
\* of the documents; the words of the emitted blocks are at most max_tokens,
\* and the text holds those and one more word for each divider between two
\* blocks.
C20_BlocksWithinBudget ==
    buildOp.op = "build_context" =>
       LET blocks == Blocks(buildOp.text)
           p == Len(blocks)
       IN  /\ EmitsFittingPrefix
           /\ WordCount(blocks) <= buildOp.max_tokens
           /\ WordCount(buildOp.text) = WordCount(blocks) + (IF p = 0 THEN 0 ELSE p - 1)

\* A call that emitted two blocks or more, with a divider between them, and
\* stopped at a block too large for what was left although a later, smaller
\* block would have fit.
C20_Witness ==
    /\ buildOp.op = "build_context"
    /\ LET documents == buildOp.documents
           p == Len(Blocks(buildOp.text))
       IN  /\ p >= 2
           /\ p + 1 < Len(documents)
           /\ \E j \in (p + 2)..Len(documents) :
                 PrefixWords(documents, p) + BlockWords(documents[j][1])
                    <= buildOp.max_tokens
           /\ WordCount(buildOp.text) > WordCount(Blocks(buildOp.text))

(***************************************************************************)
(* Properties of IntentDetector's hints, checked under SpecIntent          *)
(***************************************************************************)
\* Some word of the set occurs in the lower-cased query
Mentions(query, words) == \E w \in words : Contains(Lower(query), w)

\* C21: extract_context_from_query(query) holds needs_holdings, and holds it
\* as True, exactly when the lower-cased query contains 'hold', 'own',
\* 'portfolio' or 'position'; needs_goals exactly for 'goal', 'save',
\* 'retire', 'target'; needs_risk_profile exactly for 'risk', 'conservative',
\* 'aggressive', 'tolerance'; each whatever the other hints and the intent
\* are, and a hint that does not apply is no key of the result.
C21_HintsAreIndependent ==
    "extract_context" \in detOp.did =>
       LET hints == detOp.hints
           q == detOp.query
       IN  /\ DOMAIN hints \subseteq {"needs_holdings", "needs_goals", "needs_risk_profile"}
           /\ \A h \in DOMAIN hints : hints[h] = TRUE
           /\ "needs_holdings" \in DOMAIN hints
                 <=> Mentions(q, {"hold", "own", "portfolio", "position"})
           /\ "needs_goals" \in DOMAIN hints
                 <=> Mentions(q, {"goal", "save", "retire", "target"})
           /\ "needs_risk_profile" \in DOMAIN hints
                 <=> Mentions(q, {"risk", "conservative", "aggressive", "tolerance"})

\* A query that mentions holdings and risk but no goal, and whose intent
\* (PORTFOLIO_ANALYSIS) was detected as well.
C21_Witness ==
    /\ detOp.did = {"detect_intent", "extract_context"}
    /\ DOMAIN detOp.hints = {"needs_holdings", "needs_risk_profile"}
    /\ detOp.intent = PORTFOLIO_ANALYSIS

(***************************************************************************)
(* Properties of the IntentDetector inside the router, checked under Spec  *)
(***************************************************************************)
\* The intent a detector just built gives each message, from its table
IntentAtStart ==
    [q \in RouterQueries \ {None} |->
        LET matching == {i \in 1..Len(BuildIntentKeywords) :
                            \E w \in Range(BuildIntentKeywords[i][2]) :
                               Contains(Lower(q), w)}
        IN  IF matching = {} THEN FINANCE_QA
            ELSE BuildIntentKeywords[FirstOf(matching)][1]]

\* C22: whatever router and session calls were made, the keyword table is
\* the one the detector was built with, and a query is given the intent a
\* detector just built gives it: the same intent on every call.
C22_IntentIsDeterministic ==
    /\ keywords = BuildIntentKeywords
    /\ (callOp.op = "process_message" /\ IsStr(callOp.query))
       => sessions[callOp.user].current_agent = IntentAtStart[callOp.query]

\* A query classified on a session that existed, after the other user had
\* an exchange on the same query.
C22_Witness ==
    /\ callOp.op = "process_message"
    /\ callOp.query = "Analyze my portfolio"
    /\ callOp.existed
    /\ \E o \in DOMAIN sessions \ {callOp.user} :
          /\ okLog[o] # << >>
          /\ okLog[o][1][1] = callOp.query
          /\ sessions[o].current_agent = PORTFOLIO_ANALYSIS
    /\ sessions[callOp.user].current_agent = PORTFOLIO_ANALYSIS

(***************************************************************************)
(* Properties of KnowledgeBase.load_documents, checked under SpecRag       *)
(***************************************************************************)
\* The file can be parsed into documents: json.load accepts it and every
\* element is a record
Parsable(file) ==
    file.kind # "invalid" /\ \A i \in 1..Len(file.items) : file.items[i] # "bad"

\* The documents of the parsable files, file after file
RECURSIVE ParsableDocs(_)
ParsableDocs(files) ==
    IF files = << >> THEN << >>
    ELSE (IF Parsable(Head(files)) THEN Head(files).items ELSE << >>)
         \o ParsableDocs(Tail(files))

\* C23: load_documents raises nothing; it appends every document of every
\* file that can be parsed, and nothing from a file that cannot.
C23_BadFilesAreSkipped ==
    [][ragOp'.op = "load_documents" =>
          /\ ragOp'.raised = "nothing"
          /\ kbDocs' = kbDocs \o ParsableDocs(disk)]_vars

(***************************************************************************)
(* Properties of a failing search, checked under SpecRag                   *)
(***************************************************************************)
\* C24: on an instance with a backend, a retrieve whose search raises returns
\* the first k documents of the store, every one with the score 0.0, and
\* leaves the instance as it was; a retrieve whose search succeeds returns
\* distance-scored documents only; and the retrieve after a failed one
\* searches again (or fails on its own), never taking the fallback branch.
C24_OnlyTheFailedCallDegrades ==
    [][(ragOp'.op = "retrieve" /\ retr.mode = "similarity") =>
          /\ retr' = retr
          /\ kbDocs' = kbDocs
          /\ ragOp'.path = "except" =>
                /\ Len(ragOp'.results)
                      = (IF ragOp'.k < Len(kbDocs) THEN ragOp'.k ELSE Len(kbDocs))
                /\ \A i \in 1..Len(ragOp'.results) :
                      ragOp'.results[i] = <<kbDocs[i], 0>>
          /\ ragOp'.path = "search" =>
                \A i \in 1..Len(ragOp'.results) :
                   ragOp'.results[i][2]
                      \in {Dist(Embedding[ragOp'.results[i][1]], ragOp'.q), NoNeighbour}
          /\ (ragOp.op = "retrieve" /\ ragOp.path = "except")
                => ragOp'.path \in {"search", "except"}]_vars

\* A retrieve of two documents or more whose search raised: first documents
\* of a store whose nearest document to the query is not the first.
C24_Witness ==
    /\ ragOp.op = "retrieve"
    /\ ragOp.path = "except"
    /\ retr.mode = "similarity"
    /\ Len(ragOp.results) >= 2
    /\ \A i \in 1..Len(ragOp.results) : ragOp.results[i] = <<kbDocs[i], 0>>
    /\ Dist(Embedding[kbDocs[2]], ragOp.q) < Dist(Embedding[kbDocs[1]], ragOp.q)

(***************************************************************************)
(* Properties of the context route() builds, checked under SpecRoute       *)
(***************************************************************************)
\* C25: in the context handed to the responder, the session's context
\* entries (the hints among them), the holdings and the goals each have
\* their own entry, none written over by another, whatever the symbols of
\* the portfolio are called.
C25_DistinctNamespaces ==
    ReachedResponder =>
       LET state == sessions[callOp.user]
       IN  /\ "hints" \in DOMAIN state.context
           /\ Cardinality(DOMAIN callOp.out)
                 = Cardinality(DOMAIN state.context)
                   + Cardinality(DOMAIN state.portfolio) + 1

\* C26: whatever load_documents, add_document and the constructor of the
\* retriever have done, no two documents of the store carry the same id.
C26_IdsPairwiseDistinct ==
    \A i, j \in 1..Len(kbDocs) : kbDocs[i] = kbDocs[j] => i = j

(***************************************************************************)
(* Properties of get_stock_quote, checked under SpecQuote                  *)
(***************************************************************************)
\* C27: once get_stock_quote(s) has fetched a quote, a get_stock_quote(s)
\* issued less than ttl_seconds after that quote was stored returns the same
\* quote without a fetch, and one issued ttl_seconds or more after it, or with
\* no quote fetched before, goes to the backend; so there is at most one
\* successful fetch per symbol and window of ttl_seconds.
C27_OneFetchPerWindow ==
    [][cacheOp'.op = "get_stock_quote" =>
          LET k == cacheOp'.key
              last == lastSet[k]
              live == last.time >= 0 /\ now - last.time < ttl_seconds
          IN  /\ live => /\ cacheOp'.branch = "hit"
                         /\ cacheOp'.ret = last.value
                         /\ lastSet'[k] = last
                         /\ cache' = cache
              /\ ~live => cacheOp'.branch \in {"fetched", "no_data", "error"}
              /\ cacheOp'.branch = "fetched" =>
                    /\ cacheOp'.ret = lastSet'[k].value
                    /\ k \in DOMAIN cache'
                    /\ cache'[k] = [value |-> cacheOp'.ret, timestamp |-> now']]_vars

\* A quote served from the cache some time after it was fetched.
C27_Witness ==
    /\ cacheOp.op = "get_stock_quote"
    /\ cacheOp.branch = "hit"
    /\ lastSet[cacheOp.key].time > 0
    /\ now > lastSet[cacheOp.key].time
    /\ cacheOp.ret = lastSet[cacheOp.key].value

(***************************************************************************)
(* Properties of GeminiProvider.generate, checked under SpecLlm            *)
(***************************************************************************)
\* The passes generate can still make at most.
PassesLeft(g) ==
    IF g.pc = "calling"
    THEN (Len(model_names) - g.model) * max_retries + (max_retries - g.retry_count)
    ELSE 0

\* C28: generate always ends: every pass leaves fewer passes to make, the
\* four models are taken in their order with at most 3 calls each and 12 in
\* all, the text of the first response that has one is returned with no
\* further model tried, and RuntimeError is raised only when every model
\* has been given up.
C28_GenerateTerminates ==
    /\ [][gen.pc = "calling" =>
             /\ PassesLeft(gen') < PassesLeft(gen)
             /\ gen'.pc = "calling" => gen'.model \in {gen.model, gen.model + 1}]_vars
    /\ [](/\ Len(model_names) = 4
          /\ gen.calls <= 12
          /\ gen.slept <= 10
          /\ \A m \in 1..Len(model_names) :
                /\ gen.tried[m] <= 3
                /\ (gen.pc # "idle" /\ m > gen.model) => gen.tried[m] = 0
                /\ (gen.pc = "calling" /\ m < gen.model) =>
                       gen.left[m] \in {"not_found", "exhausted"}
          /\ gen.pc = "returned" =>
                /\ gen.ret = "response.text"
                /\ gen.left[gen.model] = "returned"
                /\ \A m \in 1..(gen.model - 1) :
                       gen.left[m] \in {"not_found", "exhausted"}
          /\ gen.pc = "raised" =>
                /\ gen.ret = "RuntimeError: All models failed"
                /\ gen.last_error # NoError
                /\ \A m \in 1..Len(model_names) :
                       gen.tried[m] >= 1 /\ gen.left[m] \in {"not_found", "exhausted"})

\* The text returned by the twelfth call.
C28_Witness ==
    /\ gen.pc = "returned"
    /\ gen.model = 4
    /\ gen.calls = 12

\* C29: a pass that ends with a 'not found' or 404 exception is the last one
\* of its model; after a pass that ends with another exception or with an
\* empty response the same model is called again, unless that was its third
\* call, and then the model is given up.
C29_NotFoundLeavesOthersRetry ==
    [][(gen.pc = "calling" /\ gen'.calls = gen.calls + 1 /\ gen'.pc # "returned") =>
          LET m == gen.model
              outcome == gen'.last_error
              movedOn == \/ gen'.pc = "raised" /\ m = Len(model_names)
                         \/ gen'.pc = "calling" /\ gen'.model = m + 1
                                                /\ gen'.retry_count = 0
              sameModel == gen'.pc = "calling" /\ gen'.model = m
          IN  /\ ModelNotFound(outcome) => (movedOn /\ gen'.left[m] = "not_found")
              /\ ~ModelNotFound(outcome) =>
                    IF gen'.tried[m] < 3
                    THEN sameModel /\ gen'.left[m] = "no"
                    ELSE movedOn /\ gen'.left[m] = "exhausted"]_vars

\* The first model given up at its first call, the second after three calls.
C29_Witness ==
    /\ gen.pc = "calling"
    /\ gen.model = 3
    /\ gen.tried[1] = 1 /\ gen.left[1] = "not_found"
    /\ gen.tried[2] = 3 /\ gen.left[2] = "exhausted"
    /\ gen.last_error.kind = "empty"

(***************************************************************************)
(* Properties of Agent.get_memory, checked under SpecMemory                *)
(***************************************************************************)
\* C30: get_memory(limit) returns the min(limit, n) most recent of the n
\* entries stored, in the order they were added, and so at most limit
\* entries, for every limit >= 0.
C30_AtMostLimitEntries ==
    memOp.op = "get_memory" =>
        LET n == Len(memory)
            count == IF memOp.limit < n THEN memOp.limit ELSE n
        IN  /\ Len(memOp.ret) <= memOp.limit
            /\ memOp.ret = SubSeq(memory, n - count + 1, n)

====
